---- MODULE Spec2Model ----
(***************************************************************************)
(* Model of the MCP security test agents:                                  *)
(*   - the challenge agents' graph agent -> tools -> agent -> ... -> END   *)
(*     (challenge_agents.py),                                              *)
(*   - the MCP client operations, each of which opens a transport and a    *)
(*     session, initializes, sends one request, closes and normalizes      *)
(*     (mcp_client.py, and the helper functions of hint_agent.py),         *)
(*   - the hint agent's single node with its free-text command rules       *)
(*     (hint_agent.py).                                                    *)
(* Strings are sequences of tokens; a punctuation mark that matters (the   *)
(* colon of "Error:") is a token of its own.                               *)
(* An action is one synchronous segment of the code: from the completion   *)
(* of one await to the start of the next one.                              *)
(***************************************************************************)
EXTENDS Integers, Sequences, FiniteSets, TLC

VARIABLES
    agent,           \* which graph / caller runs on this thread
    messages,        \* the thread's stored conversation (state["messages"])
    pc,              \* position in the graph
    error,           \* what raised out of the run, "none" if nothing did
    cycles,          \* LLM invocations made on this thread
    runs,            \* runs started on this thread
    declared,        \* tool calls declared so far (the next correlation id - 1)
    toolIdx,         \* tool_node: index of the tool call being executed
    tool_responses,  \* tool_node: the local list tool_responses
    node_messages,   \* hint_node: the local list messages
    call,            \* the MCP client operation in flight
    step,            \* the await the operation in flight is suspended at
    transport,       \* the transport (streams) of the most recent operation
    session,         \* the ClientSession of the most recent operation
    raw,             \* the server's response to the request in flight
    lastCall,        \* how the most recent operation ended
    llm_input,       \* the messages the most recent LLM invocation was passed
    awaited,         \* the awaits the most recent operation has begun, in order
    advertised,      \* what the server advertised when it answered that request
    selected_challenge,  \* the orchestrator's state["selected_challenge"]
    method,          \* normalization alone: the operation whose response it is
    result,          \* normalization alone: the response (result = await session...)
    returned,        \* normalization alone: what each normalization of it returned
    conv,            \* concurrent conversations: the running graph of each
    threads,         \* concurrent conversations: the stored messages of each thread
    sessions,        \* concurrent conversations: the ClientSession objects created
    processes,       \* server manager: self.processes, challenge -> process (0: no entry)
    spawned,         \* server manager: the processes its Popen calls created
    starting,        \* server manager: the call of start_server in progress
    start_error      \* server manager: what the most recent start_server raised

\* the state of the agents and of the client operation in flight
mainvars == <<agent, messages, pc, error, cycles, runs, declared, toolIdx,
              tool_responses, node_messages, call, step, transport, session, raw,
              lastCall, llm_input, awaited, advertised, selected_challenge>>

\* the state of the specifications that study one part of the code alone
normvars == <<method, result, returned>>
convvars == <<conv, threads, sessions>>
srvvars == <<processes, spawned, starting, start_error>>
elsewhere == <<normvars, convvars, srvvars>>

vars == <<mainvars, elsewhere>>

----------------------------------------------------------------------------
(* Bounds of the model *)

\* LLM invocations explored on one thread
MaxCycles == 3
\* tool calls one Assistant message may declare
MaxOps == 2
\* tool calls declared on one thread
MaxDeclared == 2
\* runs started on one thread
MaxRuns == 2
\* the challenges whose servers the server manager is asked to start
MaxChallenge == 2
\* processes the server manager spawns
MaxStarts == 3

----------------------------------------------------------------------------
(* Sequences and strings *)

Last(s) == s[Len(s)]

Contains(s, tok) == \E i \in 1..Len(s) : s[i] = tok

StartsWith(s, p) == Len(s) >= Len(p) /\ SubSeq(s, 1, Len(p)) = p

----------------------------------------------------------------------------
(* Messages *)

Msg(type, content, tool_calls, tool_call_id) ==
    [type |-> type, content |-> content, tool_calls |-> tool_calls,
     tool_call_id |-> tool_call_id]

HumanMessage(content) == Msg("human", content, <<>>, 0)
SystemMessage(content) == Msg("system", content, <<>>, 0)
AIMessage(content, tool_calls) == Msg("ai", content, tool_calls, 0)
ToolMessage(content, tool_call_id) == Msg("tool", content, <<>>, tool_call_id)

NoInput == [run |-> 0, input |-> <<>>, outcome |-> "none"]
NoCall == [client |-> "none", op |-> "none", arg |-> "none", id |-> 0]
NoRaw == [shape |-> "none", items |-> <<>>]
NoLast == [client |-> "none", op |-> "none", arg |-> "none", id |-> 0,
           outcome |-> "none", value |-> <<>>, failedAt |-> "none",
           cause |-> "none", transport |-> "none", session |-> "none",
           run |-> 0, served |-> NoRaw, advertised |-> NoRaw]

----------------------------------------------------------------------------
(* The challenge agent's tools *)

\* the argument mapping of a tool call; "absent" marks a key the mapping lacks
Args(username, uri) == [username |-> username, uri |-> uri]

\* tools = [list_mcp_tools, list_mcp_resources, list_mcp_prompts, get_user_info, read_mcp_resource]
tools == <<"list_mcp_tools", "list_mcp_resources", "list_mcp_prompts",
           "get_user_info", "read_mcp_resource">>

ToolNames == {tools[i] : i \in 1..Len(tools)}

\* the arguments a tool's signature requires
RequiredArgs(name) ==
    CASE name = "get_user_info" -> {"username"}
      [] name = "read_mcp_resource" -> {"uri"}
      [] OTHER -> {}

\* t.ainvoke(tool_args) validates the arguments against the tool's signature
\* and raises when a required argument is missing
ArgsValid(tc) == \A k \in RequiredArgs(tc.name) : tc.args[k] # "absent"

\* the MCPClient method a tool's body awaits
ToolBody(tc) ==
    CASE tc.name = "list_mcp_tools" ->
            [client |-> "MCPClient", op |-> "list_tools", arg |-> "none", id |-> tc.id]
      [] tc.name = "list_mcp_resources" ->
            [client |-> "MCPClient", op |-> "list_resources", arg |-> "none", id |-> tc.id]
      [] tc.name = "list_mcp_prompts" ->
            [client |-> "MCPClient", op |-> "list_prompts", arg |-> "none", id |-> tc.id]
      [] tc.name = "get_user_info" ->
            [client |-> "MCPClient", op |-> "execute_tool", arg |-> "get_user_info", id |-> tc.id]
      [] tc.name = "read_mcp_resource" ->
            [client |-> "MCPClient", op |-> "read_resource", arg |-> tc.args.uri, id |-> tc.id]

----------------------------------------------------------------------------
(* The MCP client operations: mcp_client.py and the helpers of hint_agent.py *)

\* a variant that sends the request before the handshake
StepsRequestFirst == <<"connect", "session_enter", "request", "initialize",
                       "session_exit", "transport_exit">>

\* a variant that closes the transport first and returns with the session
\* still entered
StepsTransportFirst == <<"connect", "session_enter", "initialize", "request",
                         "transport_exit", "session_exit">>

\* the awaits of one operation, in the order the code reaches them
Steps == <<"connect", "session_enter", "initialize", "request",
           "session_exit", "transport_exit">>

\* the await the code reaches when the await s has completed
After(s) == Steps[(CHOOSE i \in 1..Len(Steps) : Steps[i] = s) + 1]

\* the text of the exception a step raises
Cause(s) ==
    CASE s = "connect" -> "connection refused"
      [] s = "session_enter" -> "session start failed"
      [] s = "initialize" -> "handshake failed"
      [] s = "request" -> "request failed"
      [] s = "session_exit" -> "session close failed"
      [] s = "transport_exit" -> "transport close failed"
      [] s = "normalize" -> "bad response"

\* a variant whose except branches return another prefix
ErrorValueOtherPrefix(c, cause) ==
    IF c.client = "MCPClient"
    THEN <<"Failed", ":", cause>>
    ELSE <<"Error", ":", c.op, cause, "traceback">>

\* a variant whose except branches drop the exception's text
ErrorValueNoCause(c, cause) ==
    IF c.client = "MCPClient"
    THEN <<"Error", ":", "operation failed">>
    ELSE <<"Error", c.op, c.arg, ":", "operation failed">>

\* the except branch of each operation
ErrorValue(c, cause) ==
    CASE c.client = "MCPClient" -> <<"Error", ":", cause>>
      [] c.op = "execute_mcp_tool" ->
            <<"Error", "executing", "tool", c.arg, ":", cause, "traceback">>
      [] c.op = "read_mcp_resource" ->
            <<"Error", "reading", "resource", c.arg, ":", cause, "traceback">>
      [] c.op = "list_mcp_tools" ->
            <<"Error", "listing", "tools", ":", cause, "traceback">>
      [] c.op = "list_mcp_resources" ->
            <<"Error", "listing", "resources", ":", cause, "traceback">>

\* a variant with the normalization after the try block
InTryNormalizeOutside(s) == s # "normalize"

\* every statement of an operation, the normalization included, lies inside
\* its try block
InTry(s) == TRUE

\* the responses a server may give: the SDK's result object (its list under
\* the attribute the operation reads), a bare list of records, or an object
\* without that attribute
RawResponses == {[shape |-> "result", items |-> <<"A", "B">>],
                 [shape |-> "list", items |-> <<"A">>],
                 [shape |-> "bare", items |-> <<>>]}

ContentOps == {"execute_tool", "read_resource", "execute_mcp_tool", "read_mcp_resource"}

\* result.content / result.contents of a response without that attribute
\* raises; the hint agent's list_mcp_tools iterates the result object itself
\* and reads .name of what the iteration yields
NormalizeRaises(c, r) ==
    \/ c.op \in ContentOps /\ r.shape # "result"
    \/ c.client = "hint" /\ c.op = "list_mcp_tools" /\ r.shape # "list"

RECURSIVE Flatten(_)
Flatten(ss) == IF ss = <<>> THEN <<>> ELSE Head(ss) \o Flatten(Tail(ss))

ListOps == {"list_tools", "list_resources", "list_prompts",
            "list_mcp_tools", "list_mcp_resources"}

\* json.dumps of what the operation builds from the response
Normalize(c, r) ==
    LET \* result.tools if hasattr(result, 'tools') else
        \* (result if isinstance(result, list) else [result])
        records == IF c.op \in ListOps /\ r.shape = "bare" THEN <<"result">>
                   ELSE IF c.op \in ListOps \/ r.shape = "result" THEN r.items
                   ELSE <<>>
        row(x) == IF c.op \in ContentOps THEN <<"type", "text", "text", x>>
                  ELSE IF c.op = "get_prompt" THEN <<"role", "content", x>>
                  ELSE IF r.shape # "bare" THEN <<"name", x>>
                  ELSE IF c.op \in {"list_tools", "list_mcp_resources"}
                       THEN <<"info", x>>
                  ELSE <<>>
        rows == [i \in 1..Len(records) |-> row(records[i])]
    IN  IF c.op = "get_prompt"
        THEN <<"{", "messages", "[">> \o Flatten(rows) \o <<"]", "}">>
        ELSE <<"[">> \o Flatten(rows) \o <<"]">>

\* a variant in which an operation that finds a session left open by the
\* one before it sends its request on that session
StartCallVarsReuse(c) ==
    /\ call' = c
    /\ raw' = NoRaw
    /\ advertised' = NoRaw
    /\ IF session = "open"
       THEN /\ step' = "request"
            /\ awaited' = Append(awaited, "request")
            /\ UNCHANGED <<transport, session>>
       ELSE /\ step' = "connect"
            /\ awaited' = <<"connect">>
            /\ transport' = "none"
            /\ session' = "none"

\* a variant that answers a repeated operation from the response the
\* operation before it received
FetchCached(s) ==
    IF lastCall.served # NoRaw /\ lastCall.op = call.op THEN lastCall.served ELSE s

\* result = await session.list_tools() (or the request of another
\* operation): the response is what the server s answers to this request
Fetch(s) == s

\* the entry of an operation: streams = sse_client(self.server_url) and
\* await streams.__aenter__() on local variables of this call
StartCallVars(c) ==
    /\ call' = c
    /\ step' = "connect"
    /\ awaited' = <<"connect">>
    /\ transport' = "none"
    /\ session' = "none"
    /\ raw' = NoRaw
    /\ advertised' = NoRaw

EndCallVars(tr, se) ==
    /\ call' = NoCall
    /\ step' = "idle"
    /\ awaited' = awaited
    /\ transport' = tr
    /\ session' = se
    /\ raw' = NoRaw
    /\ advertised' = NoRaw

Ended(outcome, value, failedAt, tr, se) ==
    [client |-> call.client, op |-> call.op, arg |-> call.arg, id |-> call.id,
     outcome |-> outcome, value |-> value, failedAt |-> failedAt,
     cause |-> IF failedAt = "none" THEN "none" ELSE Cause(failedAt),
     transport |-> tr, session |-> se, run |-> runs,
     served |-> raw, advertised |-> advertised]

----------------------------------------------------------------------------
(* The challenge agent's graph: challenge_agents.py *)

\* the tool calls the model lets the LLM declare
LLMOps == {[name |-> "list_mcp_tools", args |-> Args("absent", "absent")],
           [name |-> "read_mcp_resource", args |-> Args("absent", "notes://x")],
           [name |-> "get_user_info", args |-> Args("absent", "absent")],
           [name |-> "no_such_tool", args |-> Args("absent", "absent")]}

\* a tool call as the LLM issues it: the i-th of a message takes the next
\* unused correlation id
ToolCall(shape, id) == [id |-> id, name |-> shape.name, args |-> shape.args]

\* a variant whose conditional edge always leads to the tool step
should_continue_always_tools(msgs) == "tools"

\* a variant whose conditional edge always leads to END
should_continue_always_end(msgs) == "END"

\* the system message challenge_node builds from the challenge's number and
\* its entry of CHALLENGE_CONFIGS
system_msg == <<"assistant for", "Challenge N", "config name", "objectives">>

\* if len(messages) <= 1 and not any(... m.type == 'system' for m in messages):
\*     messages = [SystemMessage(content=system_msg)] + list(messages)
WithSystemMessage(msgs) ==
    IF Len(msgs) <= 1 /\ \A i \in 1..Len(msgs) : msgs[i].type # "system"
    THEN <<SystemMessage(system_msg)>> \o msgs
    ELSE msgs

\* if hasattr(last_message, 'tool_calls') and last_message.tool_calls:
\*     return "tools"
\* return END
should_continue(msgs) ==
    IF Last(msgs).tool_calls # <<>> THEN "tools" ELSE "END"

\* a variant whose edge out of the tool step leads to END
edge_tools_to_end(node) == IF node = "tools" THEN "END" ELSE "agent"

\* workflow.add_edge(START, "agent") and workflow.add_edge("tools", "agent"):
\* the node that follows the start of a run and the return of tool_node
edge(node) == "agent"

\* a variant that takes the declared calls from the last one
NextKnownLast(calls, k) ==
    LET ks == {j \in k..Len(calls) : calls[j].name \in ToolNames}
    IN  IF ks = {} THEN Len(calls) + 1 ELSE CHOOSE j \in ks : \A i \in ks : i <= j

\* for t in tools: if t.name == tool_name -- the first call at or after k
\* whose name is a tool's; a call with no such tool is passed over
RECURSIVE NextKnown(_, _)
NextKnown(calls, k) ==
    IF k > Len(calls) THEN k
    ELSE IF calls[k].name \in ToolNames THEN k
    ELSE NextKnown(calls, k + 1)

\* a variant that puts the newest response first
PrependResponse(resp, m) == <<m>> \o resp

\* tool_responses.append(ToolMessage(content=result, tool_call_id=...))
AppendResponse(resp, m) == Append(resp, m)

\* tool_node's loop over last_message.tool_calls from position k, up to its
\* next await or its return
ToolLoop(k, resp, tr, se) ==
    LET calls == Last(messages).tool_calls
        j == NextKnown(calls, k)
    IN  /\ node_messages' = node_messages
        /\ IF j > Len(calls)
           THEN /\ messages' = messages \o resp
                /\ pc' = edge("tools")
                /\ error' = error
                /\ toolIdx' = 0
                /\ tool_responses' = <<>>
                /\ EndCallVars(tr, se)
           ELSE IF ~ArgsValid(calls[j])
           THEN /\ messages' = messages
                /\ pc' = "raised"
                /\ error' = "invalid arguments"
                /\ toolIdx' = j
                /\ tool_responses' = <<>>
                /\ EndCallVars(tr, se)
           ELSE /\ messages' = messages
                /\ pc' = "tools"
                /\ error' = error
                /\ toolIdx' = j
                /\ tool_responses' = resp
                /\ StartCallVars(ToolBody(calls[j]))

----------------------------------------------------------------------------
(* The hint agent's node: hint_agent.py *)

ListToolsPhrases == {"list tools", "show tools", "available tools"}
ListResourcesPhrases == {"list resources", "show resources", "available resources"}
ExecutePhrases == {"run tool", "execute tool", "call tool", "use tool"}
ReadPhrases == {"read resource", "access resource", "get resource", "fetch resource"}

\* tokens that re.search(r'(?:user|username)[\s=:]+(\w+)') matches, and tokens
\* that re.search(r'(\w+://[\w/\-]+)') matches
UsernameTokens == {"user=admin"}
UriTokens == {"notes://x", "Notes://X"}

\* str.lower() of a token
Lower(tok) ==
    CASE tok = "List Tools" -> "list tools"
      [] tok = "Read Resource" -> "read resource"
      [] tok = "Notes://X" -> "notes://x"
      [] OTHER -> tok

\* last_msg = content.lower()
LowerText(text) == [i \in 1..Len(text) |-> Lower(text[i])]

ContainsAny(text, phrases) == \E p \in phrases : Contains(text, p)

\* group(1) of the first match
FirstIn(text, toks) ==
    LET i == CHOOSE i \in 1..Len(text) :
                 /\ text[i] \in toks
                 /\ \A j \in 1..(i - 1) : text[j] \notin toks
    IN  text[i]

Username(tok) == IF tok = "user=admin" THEN "admin" ELSE tok

HintCall(op, arg) == [client |-> "hint", op |-> op, arg |-> arg, id |-> 0]

\* the execute branch of hint_node: the tool name and the username pattern
ExecuteRule(last_msg) ==
    IF Contains(last_msg, "get_user_info") /\ ContainsAny(last_msg, UsernameTokens)
    THEN HintCall("execute_mcp_tool", "get_user_info")
    ELSE NoCall

\* the read branch of hint_node: the URI is searched in the original content
ReadRule(original_content) ==
    IF ContainsAny(original_content, UriTokens)
    THEN HintCall("read_mcp_resource", FirstIn(original_content, UriTokens))
    ELSE NoCall

\* a variant that tries the read branch before the others
HintRuleReadFirst(last_msg, original_content) ==
    IF ContainsAny(last_msg, ReadPhrases) THEN ReadRule(original_content)
    ELSE IF ContainsAny(last_msg, ListToolsPhrases) THEN HintCall("list_mcp_tools", "none")
    ELSE IF ContainsAny(last_msg, ListResourcesPhrases) THEN HintCall("list_mcp_resources", "none")
    ELSE IF ContainsAny(last_msg, ExecutePhrases) THEN ExecuteRule(last_msg)
    ELSE NoCall

\* a variant whose execute branch, when it finds nothing to execute, goes on
\* to the read branch
HintRuleFallThrough(last_msg, original_content) ==
    IF ContainsAny(last_msg, ListToolsPhrases) THEN HintCall("list_mcp_tools", "none")
    ELSE IF ContainsAny(last_msg, ListResourcesPhrases) THEN HintCall("list_mcp_resources", "none")
    ELSE IF ContainsAny(last_msg, ExecutePhrases) /\ ExecuteRule(last_msg) # NoCall
    THEN ExecuteRule(last_msg)
    ELSE IF ContainsAny(last_msg, ReadPhrases) THEN ReadRule(original_content)
    ELSE NoCall

\* the if / elif chain of hint_node: the helper it awaits, NoCall if none
HintRule(last_msg, original_content) ==
    IF ContainsAny(last_msg, ListToolsPhrases) THEN HintCall("list_mcp_tools", "none")
    ELSE IF ContainsAny(last_msg, ListResourcesPhrases) THEN HintCall("list_mcp_resources", "none")
    ELSE IF ContainsAny(last_msg, ExecutePhrases) THEN ExecuteRule(last_msg)
    ELSE IF ContainsAny(last_msg, ReadPhrases) THEN ReadRule(original_content)
    ELSE NoCall

\* a variant that prepends the system prompt whenever the conversation holds
\* no System message
WithSystemPromptIfNone(msgs) ==
    IF \A i \in 1..Len(msgs) : msgs[i].type # "system"
    THEN <<SystemMessage(<<"SYSTEM_PROMPT">>)>> \o msgs
    ELSE msgs

\* if len(messages) == 1: messages = [SystemMessage(content=SYSTEM_PROMPT)] + messages
WithSystemPrompt(msgs) ==
    IF Len(msgs) = 1 THEN <<SystemMessage(<<"SYSTEM_PROMPT">>)>> \o msgs ELSE msgs

\* the AIMessage hint_node wraps a helper's result in
HintAnswer(c, value) ==
    LET heading ==
            CASE c.op = "list_mcp_tools" -> <<"Available MCP Tools:">>
              [] c.op = "list_mcp_resources" -> <<"Available MCP Resources:">>
              [] c.op = "execute_mcp_tool" -> <<"Executed tool", c.arg>>
              [] c.op = "read_mcp_resource" -> <<"Read resource", c.arg>>
    IN  AIMessage(heading \o <<"json fence">> \o value \o <<"fence">>, <<>>)

\* the texts of the Human message the model gives the hint agent
HintTexts == {<<"hello">>,
              <<"list tools">>,
              <<"list resources", "notes://x">>,
              <<"list tools", "list resources">>,
              <<"run tool", "get_user_info", "user=admin">>,
              <<"run tool", "read resource", "notes://x">>,
              <<"read resource", "notes://x">>,
              <<"read resource">>,
              <<"list resources", "read resource", "notes://x">>,
              <<"run tool", "get_user_info">>,
              <<"List Tools">>,
              <<"Read Resource", "Notes://X">>}

HintInputs ==
    {prior \o <<HumanMessage(t)>> :
        prior \in {<<>>, <<HumanMessage(<<"hello">>), AIMessage(<<"llm text">>, <<>>)>>},
        t \in HintTexts}

\* a variant that asks the LLM as well after its helper returned
HintReturnThenLLM(value, tr, se) ==
    /\ messages' = messages
    /\ node_messages' = Append(node_messages, HintAnswer(call, value))
    /\ pc' = "hint_llm"
    /\ error' = error
    /\ UNCHANGED <<toolIdx, tool_responses>>
    /\ EndCallVars(tr, se)

\* hint_node after its helper returned: messages.append(AIMessage(...)) and,
\* mcp_result being a non-empty string, return {"messages": messages}
HintReturn(value, tr, se) ==
    /\ messages' = Append(node_messages, HintAnswer(call, value))
    /\ node_messages' = <<>>
    /\ pc' = "END"
    /\ error' = error
    /\ UNCHANGED <<toolIdx, tool_responses>>
    /\ EndCallVars(tr, se)

----------------------------------------------------------------------------
(* A caller that awaits one MCPClient method *)

ClientCalls ==
    {[client |-> "MCPClient", op |-> "list_tools", arg |-> "none", id |-> 0],
     [client |-> "MCPClient", op |-> "list_resources", arg |-> "none", id |-> 0],
     [client |-> "MCPClient", op |-> "list_prompts", arg |-> "none", id |-> 0],
     [client |-> "MCPClient", op |-> "execute_tool", arg |-> "get_user_info", id |-> 0],
     [client |-> "MCPClient", op |-> "read_resource", arg |-> "notes://x", id |-> 0],
     [client |-> "MCPClient", op |-> "get_prompt", arg |-> "greeting", id |-> 0]}

ClientReturn(tr, se) ==
    /\ pc' = "END"
    /\ UNCHANGED <<messages, error, toolIdx, tool_responses, node_messages>>
    /\ EndCallVars(tr, se)

----------------------------------------------------------------------------
(* How an operation ends *)

\* the operation returns value to the code that awaited it, which runs on to
\* its own next await or return
Return(value, failedAt, tr, se) ==
    /\ lastCall' = Ended("returned", value, failedAt, tr, se)
    /\ CASE agent = "challenge" ->
              ToolLoop(toolIdx + 1,
                       AppendResponse(tool_responses, ToolMessage(value, call.id)),
                       tr, se)
         [] agent = "hint" -> HintReturn(value, tr, se)
         [] agent = "client" -> ClientReturn(tr, se)

\* an exception leaves the operation and the node that awaited it
Raise(failedAt, tr, se) ==
    /\ lastCall' = Ended("raised", <<>>, failedAt, tr, se)
    /\ pc' = "raised"
    /\ error' = Cause(failedAt)
    /\ tool_responses' = <<>>
    /\ node_messages' = <<>>
    /\ UNCHANGED <<messages, toolIdx>>
    /\ EndCallVars(tr, se)

\* step s raised an exception: try: ... except Exception as e: return f"Error..."
Fail(s, tr, se) ==
    IF InTry(s)
    THEN Return(ErrorValue(call, Cause(s)), s, tr, se)
    ELSE Raise(s, tr, se)

----------------------------------------------------------------------------
(* The LLM invocation of a node *)

\* llm.ainvoke(input) as the model records it
Invoked(input, outcome) == [run |-> runs, input |-> input, outcome |-> outcome]

\* a variant that catches the failure and answers with an error text
LLMRaisesSwallowed(input) ==
    /\ llm_input' = Invoked(input, "raised")
    /\ pc' = "END"
    /\ error' = error
    /\ messages' = Append(messages, AIMessage(<<"Error", ":", "llm failure">>, <<>>))

\* response = await llm.ainvoke(messages) raises: neither node has a try
\* around it, so the exception leaves the node and the run, and the node
\* returns no state update
LLMRaises(input) ==
    /\ llm_input' = Invoked(input, "raised")
    /\ pc' = "raised"
    /\ error' = "llm failure"
    /\ messages' = messages

----------------------------------------------------------------------------
(* Initial state and actions *)

\* nothing has run yet
Quiet ==
    /\ messages = <<>>
    /\ pc = "START"
    /\ error = "none"
    /\ cycles = 0
    /\ runs = 0
    /\ declared = 0
    /\ toolIdx = 0
    /\ tool_responses = <<>>
    /\ node_messages = <<>>
    /\ call = NoCall
    /\ step = "idle"
    /\ transport = "none"
    /\ session = "none"
    /\ raw = NoRaw
    /\ lastCall = NoLast
    /\ llm_input = NoInput
    /\ awaited = <<>>
    /\ advertised = NoRaw
    /\ selected_challenge = ""

\* the specifications of one part alone have not started
NormQuiet ==
    /\ method = NoCall
    /\ result = NoRaw
    /\ returned = <<>>

ConvQuiet ==
    /\ conv = <<>>
    /\ threads = <<>>
    /\ sessions = <<>>

\* MCPServerManager.__init__: self.processes = {}; no call of start_server yet
NoStart == [challenge |-> 0, process |-> 0, i |-> 0]

\* the keys of CHALLENGE_SERVERS the model uses
ServerChallenges == 1..MaxChallenge

SrvQuiet ==
    /\ processes = [n \in ServerChallenges |-> 0]
    /\ spawned = <<>>
    /\ starting = NoStart
    /\ start_error = "none"

ElsewhereQuiet == NormQuiet /\ ConvQuiet /\ SrvQuiet

Init ==
    /\ agent \in {"challenge", "hint", "client"}
    /\ Quiet
    /\ ElsewhereQuiet

\* a run is started on the thread with a new Human message; the add_messages
\* reducer appends it to the stored conversation
StartChallengeRun ==
    /\ UNCHANGED <<selected_challenge, elsewhere>>
    /\ agent = "challenge"
    /\ pc \in {"START", "END"}
    /\ runs < MaxRuns
    /\ messages' = Append(messages, HumanMessage(<<"user text">>))
    /\ pc' = edge("START")
    /\ runs' = runs + 1
    /\ UNCHANGED <<agent, error, cycles, declared, toolIdx, tool_responses,
                   node_messages, call, step, transport, session, raw, lastCall,
                   llm_input, awaited, advertised>>

\* challenge_node: the LLM call resolves, then the conditional edge
challenge_node ==
    /\ UNCHANGED <<selected_challenge, elsewhere>>
    /\ pc = "agent"
    /\ cycles < MaxCycles
    /\ cycles' = cycles + 1
    /\ UNCHANGED <<agent, runs, toolIdx, tool_responses, node_messages, call,
                   step, transport, session, raw, lastCall, awaited, advertised>>
    /\ \/ /\ LLMRaises(WithSystemMessage(messages))
          /\ UNCHANGED declared
       \/ \E n \in 0..MaxOps :
             /\ declared + n <= MaxDeclared
             /\ \E shapes \in [1..n -> LLMOps] :
                   LET response ==
                           AIMessage(<<"llm text">>,
                                     [i \in 1..n |-> ToolCall(shapes[i], declared + i)])
                   IN  /\ llm_input' = Invoked(WithSystemMessage(messages), "responded")
                       /\ messages' = Append(messages, response)
                       /\ pc' = should_continue(messages')
                       /\ declared' = declared + n
                       /\ error' = error

\* tool_node from its entry to its first await (or its return)
tool_node ==
    /\ UNCHANGED <<selected_challenge, elsewhere>>
    /\ pc = "tools"
    /\ step = "idle"
    /\ ToolLoop(1, <<>>, transport, session)
    /\ UNCHANGED <<agent, cycles, runs, declared, lastCall, llm_input>>

InFlight(s) ==
    /\ UNCHANGED <<selected_challenge, elsewhere>>
    /\ step = s
    /\ UNCHANGED <<agent, cycles, runs, declared, llm_input>>

Proceed(next) ==
    /\ step' = next
    /\ awaited' = Append(awaited, next)
    /\ UNCHANGED <<messages, pc, error, toolIdx, tool_responses, node_messages,
                   call, lastCall>>

\* await streams.__aenter__()
Connect ==
    /\ InFlight("connect")
    /\ \/ /\ Proceed(After("connect"))
          /\ transport' = "open"
          /\ UNCHANGED <<session, raw, advertised>>
       \/ Fail("connect", "none", "none")

\* await session.__aenter__()
SessionEnter ==
    /\ InFlight("session_enter")
    /\ \/ /\ Proceed(After("session_enter"))
          /\ session' = "open"
          /\ UNCHANGED <<transport, raw, advertised>>
       \/ Fail("session_enter", "open", "none")

\* await session.initialize()
Initialize ==
    /\ InFlight("initialize")
    /\ \/ /\ Proceed(After("initialize"))
          /\ UNCHANGED <<transport, session, raw, advertised>>
       \/ Fail("initialize", "open", "open")

\* await session.call_tool / read_resource / list_tools / ...: the server
\* answers with what it advertises at that moment, whatever it advertised
\* before
Request ==
    /\ InFlight("request")
    /\ \/ /\ Proceed(After("request"))
          /\ \E s \in RawResponses :
                /\ advertised' = s
                /\ raw' = Fetch(s)
          /\ UNCHANGED <<transport, session>>
       \/ Fail("request", "open", "open")

\* await session.__aexit__(None, None, None); what a close that raised has
\* closed is not determined
SessionExit ==
    /\ InFlight("session_exit")
    /\ \/ /\ Proceed(After("session_exit"))
          /\ session' = "closed"
          /\ UNCHANGED <<transport, raw, advertised>>
       \/ \E se \in {"open", "closed"} : Fail("session_exit", "open", se)

\* await streams.__aexit__(None, None, None), then the normalization of the
\* response and the return
TransportExit ==
    /\ InFlight("transport_exit")
    /\ \/ /\ ~NormalizeRaises(call, raw)
          /\ Return(Normalize(call, raw), "none", "closed", "closed")
       \/ /\ NormalizeRaises(call, raw)
          /\ Fail("normalize", "closed", "closed")
       \/ \E tr \in {"open", "closed"} : Fail("transport_exit", tr, "closed")

\* the turn is abandoned while suspended: CancelledError is raised at the
\* await; it is a BaseException, which except Exception does not catch
Cancel ==
    /\ UNCHANGED <<selected_challenge, elsewhere>>
    /\ \/ step # "idle"
       \/ pc \in {"agent", "hint_llm"} /\ cycles < MaxCycles
    /\ pc' = "cancelled"
    /\ lastCall' = IF step # "idle"
                   THEN Ended("cancelled", <<>>, "none", transport, session)
                   ELSE lastCall
    /\ tool_responses' = <<>>
    /\ node_messages' = <<>>
    /\ EndCallVars(transport, session)
    /\ UNCHANGED <<agent, messages, error, cycles, runs, declared, toolIdx,
                   llm_input>>

\* a run of the hint graph: messages has no reducer, the input replaces it
StartHintRun ==
    /\ UNCHANGED <<selected_challenge, elsewhere>>
    /\ agent = "hint"
    /\ pc \in {"START", "END"}
    /\ runs < MaxRuns
    /\ messages' \in HintInputs
    /\ pc' = "hint"
    /\ runs' = runs + 1
    /\ UNCHANGED <<agent, error, cycles, declared, toolIdx, tool_responses,
                   node_messages, call, step, transport, session, raw, lastCall,
                   llm_input, awaited, advertised>>

\* hint_node from its entry to its first await
hint_node ==
    /\ UNCHANGED <<selected_challenge, elsewhere>>
    /\ pc = "hint"
    /\ LET original_content == IF messages = <<>> THEN <<>> ELSE Last(messages).content
           last_msg == LowerText(original_content)
           local == WithSystemPrompt(messages)
           c == HintRule(last_msg, original_content)
       IN  /\ node_messages' = local
           /\ IF c # NoCall
              THEN pc' = "hint_call" /\ StartCallVars(c)
              ELSE pc' = "hint_llm" /\
                   UNCHANGED <<call, step, transport, session, raw, awaited,
                               advertised>>
    /\ UNCHANGED <<agent, messages, error, cycles, runs, declared, toolIdx,
                   tool_responses, lastCall, llm_input>>

\* response = await llm.ainvoke(messages); return messages + [response]
hint_llm ==
    /\ UNCHANGED <<selected_challenge, elsewhere>>
    /\ pc = "hint_llm"
    /\ cycles' = cycles + 1
    /\ node_messages' = <<>>
    /\ UNCHANGED <<agent, runs, declared, toolIdx, tool_responses, call, step,
                   transport, session, raw, lastCall, awaited, advertised>>
    /\ \/ /\ llm_input' = Invoked(node_messages, "responded")
          /\ messages' = Append(node_messages, AIMessage(<<"llm text">>, <<>>))
          /\ pc' = "END"
          /\ error' = error
       \/ LLMRaises(node_messages)

\* a caller awaits one method of an MCPClient
StartClientCall ==
    /\ UNCHANGED <<selected_challenge, elsewhere>>
    /\ agent = "client"
    /\ pc \in {"START", "END"}
    /\ runs < MaxRuns
    /\ \E c \in ClientCalls : StartCallVars(c)
    /\ pc' = "calling"
    /\ runs' = runs + 1
    /\ UNCHANGED <<agent, messages, error, cycles, declared, toolIdx,
                   tool_responses, node_messages, lastCall, llm_input>>

Next ==
    \/ StartChallengeRun
    \/ challenge_node
    \/ tool_node
    \/ StartHintRun
    \/ hint_node
    \/ hint_llm
    \/ StartClientCall
    \/ Connect
    \/ SessionEnter
    \/ Initialize
    \/ Request
    \/ SessionExit
    \/ TransportExit
    \/ Cancel

Spec == Init /\ [][Next]_vars

----------------------------------------------------------------------------
(* Normalization of a response, field by field: the lines of mcp_client.py  *)
(* and of the hint_agent.py helpers between the closing of the transport    *)
(* and the return.  Studied alone, on a response drawn from a bounded set.  *)

\* records of one response's list
MaxItems == 2
\* normalizations of one response
MaxNormalizations == 2
\* json.dumps(..., indent=2)
Indent == 2

\* JSON values: a string, null, false, a list of values, a dict of pairs
JStr(v) == [t |-> "str", s |-> v, items |-> <<>>]
JNull == [t |-> "null", s |-> "null", items |-> <<>>]
JFalse == [t |-> "false", s |-> "false", items |-> <<>>]
JList(vs) == [t |-> "list", s |-> "", items |-> vs]
JDict(pairs) == [t |-> "dict", s |-> "", items |-> pairs]
JPair(key, v) == [t |-> "pair", s |-> key, items |-> <<v>>]

Line(depth, toks) == [indent |-> depth * Indent, text |-> toks]

\* the separator json.dumps puts after an element that is not the last
WithComma(ls, more) ==
    IF more
    THEN [ls EXCEPT ![Len(ls)] = [@ EXCEPT !.text = Append(@, ",")]]
    ELSE ls

\* json.dumps(j, indent=2) as its lines, j standing at nesting depth d
RECURSIVE Dumps(_, _)
Dumps(j, d) ==
    LET n == Len(j.items)
        inner == Flatten([i \in 1..n |-> WithComma(Dumps(j.items[i], d + 1), i < n)])
    IN  CASE j.t = "list" ->
               IF n = 0 THEN <<Line(d, <<"[]">>)>>
               ELSE <<Line(d, <<"[">>)>> \o inner \o <<Line(d, <<"]">>)>>
          [] j.t = "dict" ->
               IF n = 0 THEN <<Line(d, <<"{}">>)>>
               ELSE <<Line(d, <<"{">>)>> \o inner \o <<Line(d, <<"}">>)>>
          [] j.t = "pair" ->
               LET v == Dumps(j.items[1], d)
               IN  <<Line(d, <<j.s, ":">> \o v[1].text)>> \o Tail(v)
          [] OTHER -> <<Line(d, <<j.s>>)>>

\* Python values: an attribute an object lacks, and None
Absent == "absent"
None == "None"

\* msg.content of a prompt message: lacking, a str, an object with .text, or
\* another object
NoContent == [kind |-> Absent, text |-> Absent, repr |-> ""]
StrContent(v) == [kind |-> "str", text |-> Absent, repr |-> v]
TextContent(v) == [kind |-> "object", text |-> v, repr |-> "TextContent"]
OtherContent == [kind |-> "object", text |-> Absent, repr |-> "ImageContent"]

\* an object of a response with none of the attributes the code looks at, and
\* a tuple
Obj == [kind |-> "object", name |-> Absent, description |-> Absent,
        uri |-> Absent, inputSchema |-> Absent, mimeType |-> Absent,
        text |-> Absent, role |-> Absent, required |-> Absent,
        content |-> NoContent, arguments |-> <<>>, elems |-> <<>>,
        repr |-> "object"]
Tuple(es) == [Obj EXCEPT !.kind = "tuple", !.elems = es, !.repr = "tuple"]

hasattr(x, f) == x.kind = "object" /\ x[f] # Absent

\* the truth value of an attribute's value in "hasattr(...) and x.attr"
Truthy(v) == v \notin {Absent, None, ""}

\* a variant of str() whose text changes from one normalization to the next,
\* as the repr of an object that prints its address would
PyStrByCall(v) == IF returned = <<>> THEN v ELSE "another repr"

\* str(item), str(r.uri), str(t.inputSchema)
PyStr(v) ==
    CASE v = "schema A" -> "{'type': 'object'}"
      [] v = "HTTP://Host" -> "http://host/"
      [] OTHER -> v

\* a Python value as json.dumps writes it
JVal(v) ==
    CASE v = None -> JNull
      [] v = "False" -> JFalse
      [] OTHER -> JStr(v)

\* a variant that leaves out the content items without text
content_item_text_only(item) ==
    IF hasattr(item, "text")
    THEN <<JDict(<<JPair("type", JStr("text")), JPair("text", JVal(item.text))>>)>>
    ELSE <<>>

\* execute_tool: the entry of content_list for one item of result.content
content_item(item) ==
    IF hasattr(item, "text")
    THEN <<JDict(<<JPair("type", JStr("text")), JPair("text", JVal(item.text))>>)>>
    ELSE <<JStr(PyStr(item.repr))>>

\* read_resource: the entry of content_list for one item of result.contents
content_dict(item) ==
    IF hasattr(item, "text")
    THEN <<JDict(<<JPair("type", JStr("text")), JPair("text", JVal(item.text))>> \o
                 (IF hasattr(item, "uri") /\ Truthy(item.uri)
                  THEN <<JPair("uri", JStr(PyStr(item.uri)))>> ELSE <<>>))>>
    ELSE <<JStr(PyStr(item.repr))>>

\* if hasattr(x, 'description') and x.description: d["description"] = ...
Optional(x, f) ==
    IF hasattr(x, f) /\ Truthy(x[f]) THEN <<JPair(f, JVal(x[f]))>> ELSE <<>>

\* list_tools: the entry of tool_list for one record
tool_dict(t) ==
    IF hasattr(t, "name")
    THEN <<JDict(<<JPair("name", JVal(t.name))>> \o Optional(t, "description") \o
                 (IF hasattr(t, "inputSchema") /\ Truthy(t.inputSchema)
                  THEN <<JPair("inputSchema", JStr(PyStr(t.inputSchema)))>> ELSE <<>>))>>
    ELSE IF t.kind = "tuple"
    THEN <<JDict(<<JPair("name", IF Len(t.elems) > 0 THEN JVal(t.elems[1]) ELSE JNull),
                   JPair("description", IF Len(t.elems) > 1 THEN JVal(t.elems[2]) ELSE JNull)>>)>>
    ELSE <<JDict(<<JPair("info", JStr(PyStr(t.repr)))>>)>>

\* MCPClient.list_resources: the entry of resource_list for one record; a
\* record without uri or name gets none
res_dict(r) ==
    IF hasattr(r, "uri") /\ hasattr(r, "name")
    THEN <<JDict(<<JPair("uri", JStr(PyStr(r.uri))), JPair("name", JVal(r.name))>> \o
                 Optional(r, "description"))>>
    ELSE <<>>

\* list_mcp_resources of the hint agent: the entry for one record
hint_res_dict(r) ==
    IF hasattr(r, "uri") /\ hasattr(r, "name")
    THEN <<JDict(<<JPair("uri", JStr(PyStr(r.uri))), JPair("name", JVal(r.name))>> \o
                 Optional(r, "description") \o Optional(r, "mimeType"))>>
    ELSE IF r.kind = "tuple"
    THEN <<JDict(<<JPair("uri", IF Truthy(r.elems[1]) THEN JStr(PyStr(r.elems[1])) ELSE JNull),
                   JPair("name", IF Len(r.elems) > 1 THEN JVal(r.elems[2]) ELSE JNull)>>)>>
    ELSE <<JDict(<<JPair("info", JStr(PyStr(r.repr)))>>)>>

\* list_prompts: the record of one argument of a prompt
argument_dict(arg) ==
    JDict(<<JPair("name", JVal(arg.name)),
            JPair("description",
                  IF hasattr(arg, "description") THEN JVal(arg.description) ELSE JNull),
            JPair("required",
                  IF hasattr(arg, "required") THEN JVal(arg.required) ELSE JFalse)>>)

\* list_prompts: the entry of prompt_list for one record; a record without
\* name gets none
prompt_dict(p) ==
    IF hasattr(p, "name")
    THEN <<JDict(<<JPair("name", JVal(p.name))>> \o Optional(p, "description") \o
                 (IF p.arguments # <<>>
                  THEN <<JPair("arguments",
                               JList([i \in 1..Len(p.arguments) |->
                                         argument_dict(p.arguments[i])]))>>
                  ELSE <<>>))>>
    ELSE <<>>

\* get_prompt: the entry of messages_list for one message
msg_dict(msg) ==
    <<JDict((IF hasattr(msg, "role") THEN <<JPair("role", JVal(msg.role))>> ELSE <<>>) \o
            (IF msg.content.kind = Absent THEN <<>>
             ELSE IF msg.content.kind = "str" THEN <<JPair("content", JStr(msg.content.repr))>>
             ELSE IF msg.content.text # Absent THEN <<JPair("content", JVal(msg.content.text))>>
             ELSE <<JPair("content", JStr(PyStr(msg.content.repr)))>>))>>

\* list_mcp_tools of the hint agent: {"name": t.name, "description": t.description}
hint_tool_dict(t) ==
    <<JDict(<<JPair("name", JVal(t.name)), JPair("description", JVal(t.description))>>)>>

\* x.attr if hasattr(result, attr) else (result if isinstance(result, list)
\* else [result]): the records a list operation goes through
ListRecords(res) ==
    IF res.shape = "bare" THEN <<[Obj EXCEPT !.repr = "result"]>> ELSE res.items

\* for t in tools, where tools is what session.list_tools() returned: a list
\* gives its records; the SDK's result object gives (field, value) tuples
IterateResult(res) ==
    IF res.shape = "list" THEN res.items ELSE <<Tuple(<<"tools", "list of tools">>)>>

\* the entries one operation builds from the records, record by record
Entries(c, res) ==
    LET recs == CASE c.op \in ContentOps \cup {"get_prompt"} ->
                       IF res.shape = "result" THEN res.items ELSE <<>>
                  [] c.op = "list_mcp_tools" -> IterateResult(res)
                  [] OTHER -> ListRecords(res)
        entry(x) == CASE c.op \in {"execute_tool", "execute_mcp_tool"} -> content_item(x)
                      [] c.op \in {"read_resource", "read_mcp_resource"} -> content_dict(x)
                      [] c.op = "list_tools" -> tool_dict(x)
                      [] c.op = "list_resources" -> res_dict(x)
                      [] c.op = "list_prompts" -> prompt_dict(x)
                      [] c.op = "get_prompt" -> msg_dict(x)
                      [] c.op = "list_mcp_tools" -> hint_tool_dict(x)
                      [] c.op = "list_mcp_resources" -> hint_res_dict(x)
    IN  [i \in 1..Len(recs) |-> entry(recs[i])]

\* the statements between the closing of the transport and the return raise:
\* result.content of a response without it, arg.name of an argument without
\* a name, t.name / t.description of what the iteration of the hint agent's
\* list_mcp_tools yields, r[0] of an empty tuple
MarshalRaises(c, res) ==
    \/ c.op \in ContentOps /\ res.shape # "result"
    \/ /\ c.op = "list_prompts"
       /\ \E i \in 1..Len(ListRecords(res)) :
             /\ hasattr(ListRecords(res)[i], "name")
             /\ \E k \in 1..Len(ListRecords(res)[i].arguments) :
                   ~hasattr(ListRecords(res)[i].arguments[k], "name")
    \/ /\ c.op = "list_mcp_tools"
       /\ \/ res.shape = "bare"
          \/ \E i \in 1..Len(IterateResult(res)) :
                \/ ~hasattr(IterateResult(res)[i], "name")
                \/ ~hasattr(IterateResult(res)[i], "description")
    \/ /\ c.op = "list_mcp_resources"
       /\ \E i \in 1..Len(ListRecords(res)) :
             /\ ~(hasattr(ListRecords(res)[i], "uri") /\ hasattr(ListRecords(res)[i], "name"))
             /\ ListRecords(res)[i].kind = "tuple"
             /\ ListRecords(res)[i].elems = <<>>

\* content_list / tool_list / resource_list / prompt_list, or
\* {"messages": messages_list}
MarshalData(c, res) ==
    IF c.op = "get_prompt"
    THEN JDict(<<JPair("messages", JList(Flatten(Entries(c, res))))>>)
    ELSE JList(Flatten(Entries(c, res)))

\* what the operation returns for the response res: inside the try, so a
\* raise becomes the except branch's string
Marshal(c, res) ==
    IF MarshalRaises(c, res)
    THEN [ok |-> FALSE, data |-> JNull, text |-> ErrorValue(c, Cause("normalize"))]
    ELSE [ok |-> TRUE, data |-> MarshalData(c, res),
          text |-> Dumps(MarshalData(c, res), 0)]

\* the records the model lets a response hold
ContentItems ==
    {[Obj EXCEPT !.text = "hello"],
     [Obj EXCEPT !.text = "hello", !.uri = "notes://x"],
     [Obj EXCEPT !.text = "", !.uri = ""],
     [Obj EXCEPT !.repr = "ImageContent"]}

ToolRecords ==
    {[Obj EXCEPT !.name = "A", !.description = "does A", !.inputSchema = "schema A"],
     [Obj EXCEPT !.name = "B", !.description = None, !.inputSchema = None],
     Tuple(<<"C", "does C">>),
     Tuple(<<>>),
     [Obj EXCEPT !.repr = "opaque"]}

ResourceRecords ==
    {[Obj EXCEPT !.uri = "notes://x", !.name = "notes", !.description = "user notes",
                 !.mimeType = "text/plain"],
     [Obj EXCEPT !.uri = "HTTP://Host", !.name = "home", !.description = None,
                 !.mimeType = None],
     [Obj EXCEPT !.name = "orphan", !.description = "no uri"],
     Tuple(<<"notes://x", "notes">>),
     Tuple(<<>>)}

Argument(name, description, required) ==
    [Obj EXCEPT !.name = name, !.description = description, !.required = required]

PromptRecords ==
    {[Obj EXCEPT !.name = "greet", !.description = "greets",
                 !.arguments = <<Argument("who", "whom", "True")>>],
     [Obj EXCEPT !.name = "plain", !.description = None],
     [Obj EXCEPT !.name = "bare_arg", !.arguments = <<Argument("who", Absent, Absent)>>],
     [Obj EXCEPT !.name = "sdk_arg", !.arguments = <<Argument("who", None, None)>>],
     [Obj EXCEPT !.name = "bad_arg", !.arguments = <<Argument(Absent, "nameless", "True")>>],
     [Obj EXCEPT !.description = "anonymous"]}

PromptMessages ==
    {[Obj EXCEPT !.role = "user", !.content = StrContent("hello")],
     [Obj EXCEPT !.role = "user", !.content = TextContent("hello")],
     [Obj EXCEPT !.role = "assistant", !.content = OtherContent],
     Obj}

Methods == ClientCalls \cup
           {HintCall("list_mcp_tools", "none"), HintCall("list_mcp_resources", "none"),
            HintCall("execute_mcp_tool", "get_user_info"),
            HintCall("read_mcp_resource", "notes://x")}

ItemsOf(c) ==
    CASE c.op \in ContentOps -> ContentItems
      [] c.op \in {"list_tools", "list_mcp_tools"} -> ToolRecords
      [] c.op \in {"list_resources", "list_mcp_resources"} -> ResourceRecords
      [] c.op = "list_prompts" -> PromptRecords
      [] c.op = "get_prompt" -> PromptMessages

SeqsUpTo(S, n) == UNION {[1..k -> S] : k \in 0..n}

\* the responses: the SDK's result object or a bare list holding up to
\* MaxItems records, or an object without the attribute
Results(c) ==
    {[shape |-> sh, items |-> its] :
        sh \in {"result", "list"}, its \in SeqsUpTo(ItemsOf(c), MaxItems)}
    \cup {[shape |-> "bare", items |-> <<>>]}

NormInit ==
    /\ agent = "none"
    /\ Quiet
    /\ method \in Methods
    /\ result \in Results(method)
    /\ returned = <<>>
    /\ ConvQuiet
    /\ SrvQuiet

\* the statements after the closing of the transport, run on the response
NormalizeResult ==
    /\ Len(returned) < MaxNormalizations
    /\ returned' = Append(returned, Marshal(method, result))
    /\ UNCHANGED <<mainvars, method, result, convvars, srvvars>>

NormNext == NormalizeResult

NormSpec == NormInit /\ [][NormNext]_vars

----------------------------------------------------------------------------
(* Runs on a thread, node by node: the orchestrator's graph and the         *)
(* challenge agent's graph with every node taken from its entry to its      *)
(* return, on Human messages of several contents.                           *)

\* a message of a run's input or of a node's return value: ref is the
\* position of the stored message whose id it carries, 0 for a message the
\* thread has not stored yet
Held(msgs) == [i \in 1..Len(msgs) |-> [ref |-> i, msg |-> msgs[i]]]
Fresh(m) == [ref |-> 0, msg |-> m]

\* a variant for a state key without reducer: the update replaces the list
replace_messages(left, right) == [i \in 1..Len(right) |-> right[i].msg]

\* messages: Annotated[Sequence[BaseMessage], add_messages]: a message of
\* the update that carries the id of a stored message takes its place, the
\* others are appended in their order
add_messages(left, right) ==
    LET at(i) == {j \in 1..Len(right) : right[j].ref = i}
        merged == [i \in 1..Len(left) |->
                      IF at(i) = {} THEN left[i]
                      ELSE right[CHOOSE j \in at(i) : \A k \in at(i) : k <= j].msg]
        new == SelectSeq(right, LAMBDA r : r.ref = 0)
    IN  merged \o [i \in 1..Len(new) |-> new[i].msg]

\* the largest challenge number a Human message of the model mentions
MaxMention == 11

\* f"challenge {i}" and f"challenge{i}"
Mention(spaced, i) ==
    IF spaced THEN "challenge " \o ToString(i) ELSE "challenge" \o ToString(i)

\* the same words as a user may capitalize them
Capitalized(spaced, i) ==
    IF spaced THEN "Challenge " \o ToString(i) ELSE "Challenge" \o ToString(i)

\* messages[-1].content.lower()
content_lower(text) ==
    [k \in 1..Len(text) |->
        IF \E sp \in BOOLEAN, n \in 1..MaxMention : text[k] = Capitalized(sp, n)
        THEN LET m == CHOOSE m \in BOOLEAN \X (1..MaxMention) :
                          text[k] = Capitalized(m[1], m[2])
             IN  Mention(m[1], m[2])
        ELSE Lower(text[k])]

\* f"challenge {i}" in last_msg or f"challenge{i}" in last_msg: the words are
\* found in a mention of i and in a mention of a number whose digits start
\* with those of i
InLastMsg(i, last_msg) ==
    \E k \in 1..Len(last_msg) : \E sp \in BOOLEAN, n \in 1..MaxMention :
        /\ last_msg[k] = Mention(sp, n)
        /\ n = i \/ (n >= 10 /\ n \div 10 = i)

\* a variant that forgets the selection when the message mentions none
DetectOrClear(last_msg, before) ==
    IF \E i \in 1..10 : InLastMsg(i, last_msg)
    THEN "Challenge" \o ToString(CHOOSE i \in 1..10 :
                                    /\ InLastMsg(i, last_msg)
                                    /\ \A j \in 1..(i - 1) : ~InLastMsg(j, last_msg))
    ELSE ""

\* selected_challenge = state.get("selected_challenge", "")
\* for i in range(1, 11): if ...: selected_challenge = f"Challenge{i}"; break
Detect(last_msg, before) ==
    IF \E i \in 1..10 : InLastMsg(i, last_msg)
    THEN "Challenge" \o ToString(CHOOSE i \in 1..10 :
                                    /\ InLastMsg(i, last_msg)
                                    /\ \A j \in 1..(i - 1) : ~InLastMsg(j, last_msg))
    ELSE before

\* the contents of the Human messages of the runs
OrchestratorTexts == {<<"My name is Alice">>,
                      <<"start", Capitalized(TRUE, 3)>>,
                      <<Mention(FALSE, 10)>>}

HumanTexts == {<<"run", "the", "nonexistent_tool">>, <<>>}

ThreadInit ==
    /\ agent \in {"orchestrator", "challenge"}
    /\ Quiet
    /\ ElsewhereQuiet

\* client.runs.create(thread_id, assistant_id="orchestrator", input=...): the
\* input's Human message goes through the reducer
InvokeOrchestrator ==
    /\ agent = "orchestrator"
    /\ pc \in {"START", "END"}
    /\ runs < MaxRuns
    /\ \E txt \in OrchestratorTexts :
          messages' = add_messages(messages, <<Fresh(HumanMessage(txt))>>)
    /\ pc' = "orchestrator"
    /\ runs' = runs + 1
    /\ UNCHANGED <<agent, error, cycles, declared, toolIdx, tool_responses,
                   node_messages, call, step, transport, session, raw, lastCall,
                   llm_input, awaited, advertised, selected_challenge, elsewhere>>

\* orchestrator_node, from its entry to its return and the reducers
orchestrator_node ==
    /\ pc = "orchestrator"
    /\ LET has_system == \E i \in 1..Len(messages) : messages[i].type = "system"
           local == IF has_system THEN Held(messages)
                    ELSE <<Fresh(SystemMessage(<<"SYSTEM_PROMPT">>))>> \o Held(messages)
           input == [i \in 1..Len(local) |-> local[i].msg]
           response == AIMessage(<<"llm text">>, <<>>)
       IN  \/ /\ LLMRaises(input)
              /\ UNCHANGED selected_challenge
           \/ /\ llm_input' = Invoked(input, "responded")
              /\ messages' = add_messages(messages, Append(local, Fresh(response)))
              /\ selected_challenge' = Detect(content_lower(Last(input).content),
                                              selected_challenge)
              /\ pc' = "END"
              /\ error' = error
    /\ UNCHANGED <<agent, cycles, runs, declared, toolIdx, tool_responses,
                   node_messages, call, step, transport, session, raw, lastCall,
                   awaited, advertised, elsewhere>>

\* client.runs.create(thread_id, assistant_id="ChallengeN", input=...)
InvokeChallenge ==
    /\ agent = "challenge"
    /\ pc \in {"START", "END"}
    /\ runs < MaxRuns
    /\ \E txt \in HumanTexts :
          messages' = add_messages(messages, <<Fresh(HumanMessage(txt))>>)
    /\ pc' = edge("START")
    /\ runs' = runs + 1
    /\ UNCHANGED <<agent, error, cycles, declared, toolIdx, tool_responses,
                   node_messages, call, step, transport, session, raw, lastCall,
                   llm_input, awaited, advertised, selected_challenge, elsewhere>>

\* what the await of a tool's body gives back to tool_node: the operation's
\* normalized response, or the text of its except branch for a failure at
\* one of its steps
ToolReturns(tc) ==
    LET c == ToolBody(tc)
    IN  {Normalize(c, r) : r \in {x \in RawResponses : ~NormalizeRaises(c, x)}}
        \cup {ErrorValue(c, Cause(st)) : st \in {Steps[i] : i \in 1..Len(Steps)}}
        \cup {ErrorValue(c, Cause("normalize")) :
                 r \in {x \in RawResponses : NormalizeRaises(c, x)}}

\* tool_node, from its entry to its return and the reducer: the calls with a
\* tool's name are awaited in their order; one with invalid arguments raises
ToolNodeReturns ==
    /\ agent = "challenge"
    /\ pc = "tools"
    /\ LET calls == SelectSeq(Last(messages).tool_calls,
                              LAMBDA tc : tc.name \in ToolNames)
       IN  IF \E i \in 1..Len(calls) : ~ArgsValid(calls[i])
           THEN /\ pc' = "raised"
                /\ error' = "invalid arguments"
                /\ messages' = messages
           ELSE /\ \E outs \in [1..Len(calls) -> UNION {ToolReturns(calls[i]) :
                                                          i \in 1..Len(calls)}] :
                      /\ \A i \in 1..Len(calls) : outs[i] \in ToolReturns(calls[i])
                      /\ messages' =
                            add_messages(messages,
                                         [i \in 1..Len(calls) |->
                                             Fresh(ToolMessage(outs[i], calls[i].id))])
                /\ pc' = edge("tools")
                /\ error' = error
    /\ UNCHANGED <<agent, cycles, runs, declared, toolIdx, tool_responses,
                   node_messages, call, step, transport, session, raw, lastCall,
                   llm_input, awaited, advertised, selected_challenge, elsewhere>>

\* the run is abandoned while a node is suspended at an await
CancelRun ==
    /\ pc \in {"orchestrator", "agent", "tools"}
    /\ pc' = "cancelled"
    /\ UNCHANGED <<agent, messages, error, cycles, runs, declared, toolIdx,
                   tool_responses, node_messages, call, step, transport, session,
                   raw, lastCall, llm_input, awaited, advertised,
                   selected_challenge, elsewhere>>

ThreadNext ==
    \/ InvokeOrchestrator
    \/ orchestrator_node
    \/ InvokeChallenge
    \/ challenge_node
    \/ ToolNodeReturns
    \/ CancelRun

ThreadSpec == ThreadInit /\ [][ThreadNext]_vars

----------------------------------------------------------------------------
(* Two conversations that run concurrently: each is a run of a compiled     *)
(* graph on its own thread; a node runs until its next await, where the     *)
(* other conversation may run.                                              *)

Conversations == {1, 2}

\* the graphs the conversations run on
AgentIds == {"orchestrator", "Challenge1", "Challenge2"}

\* runs started plus tool calls declared in one conversation
MaxConvWork == 2

\* mcp_client = MCPClient(f"http://localhost:{port}/sse"): the one attribute
\* of the client object the conversations of an agent share
mcp_url(a) ==
    CASE a = "Challenge1" -> "http://localhost:9001/sse"
      [] a = "Challenge2" -> "http://localhost:9002/sse"
      [] OTHER -> "none"

\* the graph's state and the locals of the node that runs, for one conversation
Frame(a) == [agent |-> a, pc |-> "START", runs |-> 0, declared |-> 0,
             error |-> "none", selected_challenge |-> "", toolIdx |-> 0,
             tool_responses |-> <<>>, call |-> NoCall, step |-> "idle",
             session |-> 0, raw |-> NoRaw]

\* session = ClientSession(read_stream, write_stream), made for conversation
\* c's operation; used holds the conversations whose requests went over it
NewSession(c) == [opener |-> c, url |-> mcp_url(conv[c].agent),
                  state |-> "open", used |-> {}]

\* a stored message and the conversation whose turn put it on the thread
Tag(c, m) == [of |-> c, msg |-> m]
Msgs(thread) == [i \in 1..Len(thread) |-> thread[i].msg]

\* config = {"configurable": {"thread_id": ...}}: the thread of a conversation
ThreadOf(c) == c

\* the thread of conversation c after the reducer has merged update into it
Store(c, update) ==
    LET old == threads[ThreadOf(c)]
        merged == add_messages(Msgs(old), update)
    IN  [threads EXCEPT ![ThreadOf(c)] =
            [i \in 1..Len(merged) |->
                IF i <= Len(old) THEN [of |-> old[i].of, msg |-> merged[i]]
                ELSE Tag(c, merged[i])]]

\* a variant in which the session is an attribute of the client object, so
\* that an operation sends on the session made last
SessionUsedShared(c) == Len(sessions)

\* await session.initialize(), await session.call_tool(...): session is the
\* local variable of the operation that runs for conversation c
SessionUsed(c) == conv[c].session

\* the tool calls the model lets the LLM declare in one response
ConvDeclarations ==
    {<<>>,
     <<[name |-> "list_mcp_tools", args |-> Args("absent", "absent")]>>,
     <<[name |-> "no_such_tool", args |-> Args("absent", "absent")]>>,
     <<[name |-> "get_user_info", args |-> Args("absent", "absent")]>>,
     <<[name |-> "read_mcp_resource", args |-> Args("absent", "notes://x")],
       [name |-> "list_mcp_tools", args |-> Args("absent", "absent")]>>}

\* what the server answers and the awaits that fail in this specification
ConvResponses == {[shape |-> "result", items |-> <<"A", "B">>]}
ConvFailures == {"connect", "request"}

\* the first conversation runs on a challenge agent, the second on the same
\* agent, on another challenge agent or on the orchestrator
ConvInit ==
    /\ agent = "none"
    /\ Quiet
    /\ NormQuiet
    /\ SrvQuiet
    /\ \E a \in AgentIds : conv = [c \in Conversations |->
                                    IF c = 1 THEN Frame("Challenge1") ELSE Frame(a)]
    /\ threads = [c \in Conversations |-> <<>>]
    /\ sessions = <<>>

\* a run is started on the conversation's thread
ConvInvoke(c) ==
    /\ conv[c].pc \in {"START", "END"}
    /\ conv[c].runs + conv[c].declared < MaxConvWork
    /\ threads' = Store(c, <<Fresh(HumanMessage(<<"user text">>))>>)
    /\ conv' = [conv EXCEPT ![c].runs = @ + 1,
                            ![c].pc = IF conv[c].agent = "orchestrator"
                                      THEN "orchestrator" ELSE "agent"]
    /\ UNCHANGED <<sessions, mainvars, normvars, srvvars>>

\* orchestrator_node of conversation c
ConvOrchestratorNode(c) ==
    /\ conv[c].pc = "orchestrator"
    /\ LET stored == Msgs(threads[ThreadOf(c)])
           has_system == \E i \in 1..Len(stored) : stored[i].type = "system"
           local == IF has_system THEN Held(stored)
                    ELSE <<Fresh(SystemMessage(<<"SYSTEM_PROMPT">>))>> \o Held(stored)
           response == AIMessage(<<"llm text">>, <<>>)
       IN  \/ /\ conv' = [conv EXCEPT ![c].pc = "raised", ![c].error = "llm failure"]
              /\ threads' = threads
           \/ /\ threads' = Store(c, Append(local, Fresh(response)))
              /\ conv' = [conv EXCEPT
                             ![c].pc = "END",
                             ![c].selected_challenge =
                                 Detect(content_lower(Last(local).msg.content), @)]
    /\ UNCHANGED <<sessions, mainvars, normvars, srvvars>>

\* challenge_node of conversation c and the conditional edge
ConvChallengeNode(c) ==
    /\ conv[c].pc = "agent"
    /\ \/ /\ conv' = [conv EXCEPT ![c].pc = "raised", ![c].error = "llm failure"]
          /\ threads' = threads
       \/ \E shapes \in ConvDeclarations :
             /\ conv[c].runs + conv[c].declared + Len(shapes) <= MaxConvWork
             /\ LET response ==
                        AIMessage(<<"llm text">>,
                                  [i \in 1..Len(shapes) |->
                                      ToolCall(shapes[i], conv[c].declared + i)])
                IN  /\ threads' = Store(c, <<Fresh(response)>>)
                    /\ conv' = [conv EXCEPT
                                   ![c].declared = @ + Len(shapes),
                                   ![c].pc = should_continue(Msgs(threads'[ThreadOf(c)]))]
    /\ UNCHANGED <<sessions, mainvars, normvars, srvvars>>

\* tool_node of conversation c: its loop over last_message.tool_calls from
\* position k with the responses resp, up to its next await or its return
ConvToolLoop(c, k, resp) ==
    LET calls == Last(Msgs(threads[ThreadOf(c)])).tool_calls
        j == NextKnown(calls, k)
        left == [conv[c] EXCEPT !.toolIdx = 0, !.tool_responses = <<>>,
                                !.call = NoCall, !.step = "idle",
                                !.session = 0, !.raw = NoRaw]
    IN  IF j > Len(calls)
        THEN /\ threads' = Store(c, [i \in 1..Len(resp) |-> Fresh(resp[i])])
             /\ conv' = [conv EXCEPT ![c] = [left EXCEPT !.pc = "agent"]]
        ELSE IF ~ArgsValid(calls[j])
        THEN /\ threads' = threads
             /\ conv' = [conv EXCEPT ![c] = [left EXCEPT !.pc = "raised",
                                                         !.error = "invalid arguments"]]
        ELSE /\ threads' = threads
             /\ conv' = [conv EXCEPT ![c] = [conv[c] EXCEPT
                                                !.toolIdx = j,
                                                !.tool_responses = resp,
                                                !.call = ToolBody(calls[j]),
                                                !.step = "connect",
                                                !.session = 0,
                                                !.raw = NoRaw]]

\* tool_node of conversation c from its entry to its first await
ConvToolNode(c) ==
    /\ conv[c].pc = "tools"
    /\ conv[c].step = "idle"
    /\ ConvToolLoop(c, 1, <<>>)
    /\ UNCHANGED <<sessions, mainvars, normvars, srvvars>>

\* the operation of conversation c returns value to tool_node
ConvReturn(c, value) ==
    ConvToolLoop(c, conv[c].toolIdx + 1,
                 AppendResponse(conv[c].tool_responses,
                                ToolMessage(value, conv[c].call.id)))

\* the await at which conversation c's operation is suspended completes
ConvAwait(c) ==
    LET s == conv[c].step
        used == [sessions EXCEPT ![SessionUsed(c)].used = @ \cup {c}]
    IN  /\ s # "idle"
        /\ conv[c].pc = "tools"
        /\ \/ /\ s = "connect"
              /\ conv' = [conv EXCEPT ![c].step = After(s)]
              /\ UNCHANGED <<sessions, threads>>
           \/ /\ s = "session_enter"
              /\ sessions' = Append(sessions, NewSession(c))
              /\ conv' = [conv EXCEPT ![c].step = After(s),
                                      ![c].session = Len(sessions')]
              /\ UNCHANGED threads
           \/ /\ s = "initialize"
              /\ sessions' = used
              /\ conv' = [conv EXCEPT ![c].step = After(s)]
              /\ UNCHANGED threads
           \/ /\ s = "request"
              /\ sessions' = used
              /\ \E r \in ConvResponses :
                    conv' = [conv EXCEPT ![c].step = After(s), ![c].raw = Fetch(r)]
              /\ UNCHANGED threads
           \/ /\ s = "session_exit"
              /\ sessions' = [sessions EXCEPT ![conv[c].session].state = "closed"]
              /\ conv' = [conv EXCEPT ![c].step = After(s)]
              /\ UNCHANGED threads
           \/ /\ s = "transport_exit"
              /\ ConvReturn(c, IF NormalizeRaises(conv[c].call, conv[c].raw)
                               THEN ErrorValue(conv[c].call, Cause("normalize"))
                               ELSE Normalize(conv[c].call, conv[c].raw))
              /\ UNCHANGED sessions
           \/ /\ s \in ConvFailures
              /\ ConvReturn(c, ErrorValue(conv[c].call, Cause(s)))
              /\ UNCHANGED sessions
        /\ UNCHANGED <<mainvars, normvars, srvvars>>

\* conversation c's run is abandoned at an await
ConvCancel(c) ==
    /\ \/ conv[c].pc \in {"orchestrator", "agent"}
       \/ conv[c].pc = "tools" /\ conv[c].step # "idle"
    /\ conv' = [conv EXCEPT ![c].pc = "cancelled"]
    /\ UNCHANGED <<threads, sessions, mainvars, normvars, srvvars>>

ConvNext ==
    \E c \in Conversations :
        \/ ConvInvoke(c)
        \/ ConvOrchestratorNode(c)
        \/ ConvChallengeNode(c)
        \/ ConvToolNode(c)
        \/ ConvAwait(c)
        \/ ConvCancel(c)

ConvSpec == ConvInit /\ [][ConvNext]_vars

----------------------------------------------------------------------------
(* The server manager of the test fixtures: tests/conftest.py. The servers  *)
(* are processes of their own; they come up, bind their port and end        *)
(* while start_server sleeps and probes.                                    *)

\* max_retries = 10
max_retries == 10

\* process.poll() is None
Alive(p) == spawned[p].state \in {"starting", "listening"}

\* is_running: the challenge has an entry whose process has not ended
is_running(n) == processes[n] # 0 /\ Alive(processes[n])

\* a server is accepting connections on the port of challenge n
Listening(n) ==
    \E q \in 1..Len(spawned) :
        spawned[q].challenge = n /\ spawned[q].state = "listening"

\* a variant that terminates the process whatever the probe raised
ProbeRaisesTerminating(p) ==
    /\ spawned' = [spawned EXCEPT ![p].start = "raised", ![p].state = "terminated"]
    /\ starting' = NoStart
    /\ start_error' = "httpx error"
    /\ UNCHANGED processes

\* client.get raises an exception that is neither httpx.ReadTimeout nor
\* httpx.ConnectError (a connect timeout, a read error, a protocol error):
\* no except clause matches and it leaves start_server
ProbeRaises(p) ==
    /\ spawned' = [spawned EXCEPT ![p].start = "raised"]
    /\ starting' = NoStart
    /\ start_error' = "httpx error"
    /\ UNCHANGED processes

\* the challenge_server fixture: if not is_running(n): start_server(n), up
\* to the first time.sleep of its loop
challenge_server(n) ==
    /\ starting = NoStart
    /\ Len(spawned) < MaxStarts
    /\ ~is_running(n)
    /\ \/ /\ start_error' = "FileNotFoundError"
          /\ UNCHANGED <<processes, spawned, starting>>
       \/ /\ spawned' = Append(spawned, [challenge |-> n, state |-> "starting",
                                         start |-> "pending", observed |-> FALSE])
          /\ starting' = [challenge |-> n, process |-> Len(spawned) + 1, i |-> 0]
          /\ start_error' = "none"
          /\ UNCHANGED processes
    /\ UNCHANGED <<mainvars, normvars, convvars>>

\* one pass of for i in range(max_retries), from the end of its sleep to the
\* next sleep, the return or the raise; after the last pass the statements
\* behind the loop follow
start_server ==
    /\ starting # NoStart
    /\ LET p == starting.process
           n == starting.challenge
       IN  IF ~Alive(p)
           THEN /\ spawned' = [spawned EXCEPT ![p].start = "raised"]
                /\ starting' = NoStart
                /\ start_error' = "RuntimeError: failed to start"
                /\ UNCHANGED processes
           ELSE \/ /\ Listening(n)
                   /\ processes' = [processes EXCEPT ![n] = p]
                   /\ spawned' = [spawned EXCEPT ![p].start = "returned",
                                                 ![p].observed = TRUE]
                   /\ starting' = NoStart
                   /\ start_error' = "none"
                \/ /\ ~Listening(n)
                   /\ IF starting.i + 1 < max_retries
                      THEN /\ starting' = [starting EXCEPT !.i = @ + 1]
                           /\ UNCHANGED <<processes, spawned, start_error>>
                      ELSE /\ spawned' = [spawned EXCEPT ![p].state = "terminated",
                                                        ![p].start = "raised"]
                           /\ starting' = NoStart
                           /\ start_error' = "RuntimeError: did not respond"
                           /\ UNCHANGED processes
                \/ ProbeRaises(p)
    /\ UNCHANGED <<mainvars, normvars, convvars>>

\* the server script of process p binds its port and serves; a second
\* server cannot bind a port that is in use
ServerListens(p) ==
    /\ spawned[p].state = "starting"
    /\ ~Listening(spawned[p].challenge)
    /\ spawned' = [spawned EXCEPT ![p].state = "listening"]
    /\ UNCHANGED <<processes, starting, start_error, mainvars, normvars, convvars>>

\* the server script of process p ends by itself
ServerExits(p) ==
    /\ Alive(p)
    /\ spawned' = [spawned EXCEPT ![p].state = "exited"]
    /\ UNCHANGED <<processes, starting, start_error, mainvars, normvars, convvars>>

ServerInit ==
    /\ agent = "none"
    /\ Quiet
    /\ ElsewhereQuiet

ServerNext ==
    \/ \E n \in ServerChallenges : challenge_server(n)
    \/ start_server
    \/ \E p \in 1..Len(spawned) : ServerListens(p)
    \/ \E p \in 1..Len(spawned) : ServerExits(p)

ServerSpec == ServerInit /\ [][ServerNext]_vars

----------------------------------------------------------------------------
(* Properties *)

\* the configured maximum turn count that C2 speaks of
MaxTurns == 1

ErrorPrefix == <<"Error", ":">>

\* the position of the last message of the run of ToolResult messages that
\* follows message i
RECURSIVE RunEnd(_)
RunEnd(i) ==
    IF i < Len(messages) /\ messages[i + 1].type = "tool" THEN RunEnd(i + 1) ELSE i

\* the correlation ids of the ToolResult messages that follow message i
ResultIds(i) == [k \in 1..(RunEnd(i) - i) |-> messages[i + k].tool_call_id]

DeclaredIds(i) ==
    [k \in 1..Len(messages[i].tool_calls) |-> messages[i].tool_calls[k].id]

Range(f) == {f[x] : x \in DOMAIN f}

\* the tool step of Assistant message i has not ended: it is running, or the
\* run stopped in it
Pending(i) == i = Len(messages) /\ pc \in {"tools", "raised", "cancelled"}

AssistantIndices == {i \in 1..Len(messages) : messages[i].type = "ai"}

\* C1: in the challenge-agent loop the ToolResult messages after an Assistant
\* message correspond one-to-one with the Operations it declared (same ids,
\* same count), and every ToolResult message lies in the run of results
\* that directly follows an Assistant message.
C1_ResultsMatchOperations ==
    agent = "challenge" =>
        /\ \A i \in AssistantIndices :
              ~Pending(i) =>
                  /\ Range(ResultIds(i)) = Range(DeclaredIds(i))
                  /\ Len(ResultIds(i)) = Len(DeclaredIds(i))
        /\ \A j \in 1..Len(messages) :
              messages[j].type = "tool" =>
                  \E i \in AssistantIndices : i < j /\ j <= RunEnd(i)

\* the Assistant messages of the current run that declare Operations
DeclaringTurns ==
    LET humans == {i \in 1..Len(messages) : messages[i].type = "human"}
        start == IF humans = {} THEN 0 ELSE CHOOSE i \in humans : \A j \in humans : j <= i
    IN  Cardinality({i \in AssistantIndices : i > start /\ messages[i].tool_calls # <<>>})

\* C2: a run of the challenge-agent loop makes at most the configured maximum
\* number of reasoning/operations cycles: no run holds more than MaxTurns
\* Assistant messages that declare Operations.
C2_TurnsBounded ==
    agent = "challenge" => DeclaringTurns <= MaxTurns

NotOpen(x) == x \in {"none", "closed"}

\* C3: when an MCP client operation returns to its caller, on whatever path,
\* the transport and the session it opened are closed.
C3_ClosedOnReturn ==
    lastCall.outcome = "returned" =>
        NotOpen(lastCall.transport) /\ NotOpen(lastCall.session)

\* C4: when a turn is abandoned while an MCP client operation is suspended,
\* the transport and the session of that operation are closed once the
\* cancelled call has unwound.
C4_ClosedOnCancel ==
    lastCall.outcome = "cancelled" =>
        NotOpen(lastCall.transport) /\ NotOpen(lastCall.session)

\* C5: a declared Operation whose arguments do not fit its tool does not
\* abort the turn: the tool step never raises for invalid arguments.
C5_InvalidArgumentsDoNotAbort ==
    ~(pc = "raised" /\ error = "invalid arguments")

FailedReturn == lastCall.outcome = "returned" /\ lastCall.failedAt # "none"

\* C6: in the challenge-agent loop, once the tool step in which an MCP
\* operation failed is over, a ToolResult with the operation's correlation id
\* and its 'Error:' payload is in the conversation and the loop is back at the
\* reasoning step (or beyond it), not aborted by the tool step.
C6_FailureBecomesToolResult ==
    (agent = "challenge" /\ FailedReturn /\ pc \notin {"tools", "cancelled"}) =>
        /\ pc = "raised" => error = "llm failure"
        /\ StartsWith(lastCall.value, ErrorPrefix)
        /\ \E i \in 1..Len(messages) :
              messages[i] = ToolMessage(lastCall.value, lastCall.id)

\* C7: no MCP client operation raises past its boundary: whatever step
\* fails, the operation returns a string.
C7_NeverRaises ==
    /\ lastCall.outcome # "raised"
    /\ pc = "raised" => error \in {"llm failure", "invalid arguments"}
    /\ lastCall.outcome = "returned" => lastCall.value # <<>>

C7_Witness ==
    /\ FailedReturn
    /\ lastCall.failedAt = "normalize"
    /\ lastCall.client = "MCPClient"

\* C8, as stated: every error of an MCP operation, of MCPClient and of the
\* hint-agent helpers alike, is a string that begins with 'Error:'.
C8_AllErrorsPrefixed ==
    FailedReturn => StartsWith(lastCall.value, ErrorPrefix)

\* C8, amended: an error of an MCPClient operation is a string that begins
\* with 'Error:'; an error of a hint-agent helper begins with 'Error'
\* followed by what the helper was doing (not by a colon), and hint_node puts
\* it into an Assistant message after a heading.
C8_ErrorPrefixByClient ==
    FailedReturn =>
        /\ lastCall.client = "MCPClient" => StartsWith(lastCall.value, ErrorPrefix)
        /\ lastCall.client = "hint" =>
              /\ lastCall.value[1] = "Error"
              /\ lastCall.value[2] \in {"executing", "reading", "listing"}
              /\ (pc = "END" /\ lastCall.run = runs) =>
                    /\ Last(messages) = HintAnswer(lastCall, lastCall.value)
                    /\ ~StartsWith(Last(messages).content, ErrorPrefix)

C8_Witness ==
    /\ FailedReturn
    /\ lastCall.client = "hint"
    /\ lastCall.op = "list_mcp_resources"
    /\ pc = "END"

\* the words by which a failure value names the operation of call c
NamesOperation(c, value) ==
    CASE c.op = "execute_mcp_tool" -> Contains(value, "executing") /\ Contains(value, c.arg)
      [] c.op = "read_mcp_resource" -> Contains(value, "reading") /\ Contains(value, c.arg)
      [] c.op = "list_mcp_tools" -> Contains(value, "listing") /\ Contains(value, "tools")
      [] c.op = "list_mcp_resources" -> Contains(value, "listing") /\ Contains(value, "resources")
      [] OTHER -> Contains(value, c.op) \/ Contains(value, c.arg)

\* C9, as stated: the failure value of an MCP client operation carries the
\* name of the operation that failed and the underlying cause.
C9_ErrorNamesOperationAndCause ==
    (FailedReturn /\ lastCall.client = "MCPClient") =>
        /\ NamesOperation(lastCall, lastCall.value)
        /\ Contains(lastCall.value, lastCall.cause)

\* C9, amended: the failure value of an MCPClient operation is 'Error:'
\* followed by the underlying cause and nothing else, so it does not name the
\* operation; the failure value of a hint-agent helper carries both.
C9_ErrorCarriesCause ==
    FailedReturn =>
        /\ Contains(lastCall.value, lastCall.cause)
        /\ lastCall.client = "MCPClient" =>
              /\ lastCall.value = ErrorPrefix \o <<lastCall.cause>>
              /\ ~NamesOperation(lastCall, lastCall.value)
        /\ lastCall.client = "hint" => NamesOperation(lastCall, lastCall.value)

C9_Witness ==
    /\ FailedReturn
    /\ lastCall.client = "MCPClient"
    /\ lastCall.op = "read_resource"
    /\ lastCall.failedAt = "request"

\* the position of correlation id x among the Operations message i declared
\* (0 if it declared none with that id)
PosOf(i, x) ==
    LET ks == {k \in 1..Len(messages[i].tool_calls) : messages[i].tool_calls[k].id = x}
    IN  IF ks = {} THEN 0 ELSE CHOOSE k \in ks : TRUE

InDeclarationOrder(i, ids) ==
    \A a, b \in 1..Len(ids) : a < b => PosOf(i, ids[a]) < PosOf(i, ids[b])

\* C10: within one turn the ToolResult messages are appended in the order in
\* which the Assistant message declared their Operations.
C10_ResultsInDeclarationOrder ==
    agent = "challenge" =>
        /\ \A i \in AssistantIndices : InDeclarationOrder(i, ResultIds(i))
        /\ pc = "tools" =>
              InDeclarationOrder(Len(messages),
                                 [k \in 1..Len(tool_responses) |->
                                     tool_responses[k].tool_call_id])

C10_Witness ==
    /\ agent = "challenge"
    /\ \E i \in AssistantIndices :
          /\ DeclaredIds(i) = <<1, 2>>
          /\ ResultIds(i) = <<1, 2>>

\* C11: each reasoning step of the challenge-agent loop that appends an
\* Assistant message leads to END exactly when that message declares no
\* Operation, and to the tool step otherwise.
C11_DoneIffNoOperations ==
    [][(agent = "challenge" /\ pc = "agent" /\ Len(messages') = Len(messages) + 1) =>
          /\ Last(messages').type = "ai"
          /\ pc' = "END" <=> Last(messages').tool_calls = <<>>
          /\ pc' = "tools" <=> Last(messages').tool_calls # <<>>]_vars

C11_Witness ==
    /\ agent = "challenge"
    /\ pc = "END"
    /\ Last(messages).type = "ai"
    /\ Last(messages).tool_calls = <<>>
    /\ \E i \in AssistantIndices : ResultIds(i) # <<>>

Known(tc) == tc.name \in ToolNames

\* the correlation ids of the Operations of message i that name a tool of the
\* agent, in declaration order
KnownIds(i) ==
    LET known == SelectSeq(messages[i].tool_calls, Known)
    IN  [k \in 1..Len(known) |-> known[k].id]

DeclaresUnknown(i) ==
    \E k \in 1..Len(messages[i].tool_calls) : ~Known(messages[i].tool_calls[k])

\* C12: when an Assistant message declares an Operation whose name is not
\* among the agent's tools, once its tool step is over there is no ToolResult
\* for that entry, the ToolResults of all its other entries are in the
\* conversation in declaration order, and the turn has gone on to the next
\* reasoning step.
C12_UnknownNameSkipped ==
    agent = "challenge" =>
        \A i \in AssistantIndices :
            (DeclaresUnknown(i) /\ ~(i = Len(messages) /\ pc \in {"tools", "cancelled"})) =>
                /\ ResultIds(i) = KnownIds(i)
                /\ (RunEnd(i) = Len(messages) /\ pc = "raised") => error = "llm failure"

\* C13: every LLM invocation a challenge agent makes, the first of a thread,
\* one after tool results and one in a later turn alike, is passed a
\* conversation whose first message is a System message built from the
\* challenge's profile.
C13_SystemMessageFirst ==
    (agent = "challenge" /\ llm_input # NoInput) =>
        llm_input.input[1] = SystemMessage(system_msg)

\* C14: after the first completed run of a challenge agent on a fresh
\* thread, the first message of the stored conversation is a System message
\* whose content contains 'Challenge N' and the configured name.
C14_StoredSystemMessage ==
    (agent = "challenge" /\ pc = "END" /\ runs = 1) =>
        /\ messages[1].type = "system"
        /\ Contains(messages[1].content, "Challenge N")
        /\ Contains(messages[1].content, "config name")

\* the positions at which the most recent operation began the await s
Begun(s) == {i \in 1..Len(awaited) : awaited[i] = s}

\* C15: within a session the operation request is sent only after the
\* initialize handshake has completed (the request is the await begun right
\* after initialize); when initialize fails, no request is sent on that
\* session.
C15_RequestOnlyAfterInitialize ==
    /\ \A i \in Begun("request") : i > 1 /\ awaited[i - 1] = "initialize"
    /\ (step = "idle" /\ lastCall.failedAt = "initialize") => Begun("request") = {}

C15_Witness ==
    /\ agent = "challenge"
    /\ step = "idle"
    /\ lastCall.failedAt = "initialize"
    /\ lastCall.id = 2
    /\ Begun("request") = {}
    /\ tool_responses = <<>>
    /\ \E i \in 1..Len(messages) :
          /\ messages[i].type = "tool"
          /\ messages[i].tool_call_id = 1
          /\ ~StartsWith(messages[i].content, ErrorPrefix)

\* C16: a session carries at most one operation request, and every call
\* opens a transport and a session of its own: it starts with nothing open,
\* whatever the call before it left behind, and sends its request on the
\* session it has entered itself.
C16_OneRequestPerSession ==
    /\ Cardinality(Begun("request")) <= 1
    /\ Cardinality(Begun("session_enter")) <= 1
    /\ step = "connect" =>
          /\ awaited = <<"connect">>
          /\ transport = "none"
          /\ session = "none"
    /\ step = "request" => SubSeq(awaited, 1, 2) = <<"connect", "session_enter">>

C16_Witness ==
    /\ lastCall.session = "open"
    /\ step = "request"
    /\ session = "open"
    /\ Cardinality(Begun("request")) = 1

\* C17: descriptor lists are not cached: the value a list operation returns
\* is built from what the server advertises when that call's request is
\* made, so after a change of the advertised set the next list call returns
\* the new set.
C17_ListsFetchedAfresh ==
    (lastCall.outcome = "returned" /\ lastCall.failedAt = "none" /\ lastCall.op \in ListOps) =>
        /\ lastCall.served = lastCall.advertised
        /\ lastCall.value = Normalize(lastCall, lastCall.advertised)

C17_Witness ==
    /\ agent = "challenge"
    /\ lastCall.outcome = "returned"
    /\ lastCall.failedAt = "none"
    /\ lastCall.op = "list_tools"
    /\ lastCall.id = 2
    /\ \E i \in AssistantIndices :
          /\ Len(messages[i].tool_calls) = 2
          /\ \A k \in 1..2 : messages[i].tool_calls[k].name = "list_mcp_tools"
          /\ ResultIds(i) = <<1, 2>>
          /\ messages[i + 2].content = Normalize(lastCall, lastCall.advertised)
          /\ messages[i + 1].content # messages[i + 2].content
          /\ ~StartsWith(messages[i + 1].content, ErrorPrefix)

\* the text of the Human message the current hint-agent turn answers, as
\* the user wrote it and as the rules see it
TurnText ==
    LET humans == {i \in 1..Len(messages) : messages[i].type = "human"}
    IN  IF humans = {} THEN <<>>
        ELSE messages[CHOOSE i \in humans : \A j \in humans : j <= i].content

Says(phrases) == ContainsAny(LowerText(TurnText), phrases)

\* the operation of the current turn: in flight, or ended in this turn
TurnOps ==
    (IF call # NoCall THEN {call.op} ELSE {}) \cup
    (IF lastCall.run = runs THEN {lastCall.op} ELSE {})

\* the hint-agent turn has reached or passed the point where its rules chose
InTurn == agent = "hint" /\ pc \in {"hint_call", "hint_llm", "END"}

\* C18: the heuristic rules are tried in the order list-tools,
\* list-resources, tool-execution, resource-read and the first whose trigger
\* phrase is present decides: a message with a list-resources phrase (and no
\* list-tools phrase) lists the resources even when it also holds a read
\* phrase and a URI, and a message with a list-tools phrase lists the tools
\* only, even when it also says 'list resources'.
C18_FirstRuleWins ==
    InTurn =>
        /\ Says(ListToolsPhrases) => TurnOps = {"list_mcp_tools"}
        /\ (~Says(ListToolsPhrases) /\ Says(ListResourcesPhrases)) =>
              TurnOps = {"list_mcp_resources"}
        /\ (~Says(ListToolsPhrases) /\ ~Says(ListResourcesPhrases) /\ Says(ExecutePhrases)) =>
              TurnOps \subseteq {"execute_mcp_tool"}
        /\ (~Says(ListToolsPhrases) /\ ~Says(ListResourcesPhrases) /\ ~Says(ExecutePhrases)) =>
              /\ TurnOps \subseteq {"read_mcp_resource"}
              /\ TurnOps # {} => Says(ReadPhrases)

C18_Witness ==
    /\ InTurn
    /\ pc = "END"
    /\ Says(ListResourcesPhrases)
    /\ Says(ReadPhrases)
    /\ ContainsAny(TurnText, UriTokens)
    /\ lastCall.run = runs
    /\ lastCall.op = "list_mcp_resources"
    /\ lastCall.failedAt = "none"

\* C19: a hint-agent turn executes at most one MCP operation; the LLM is
\* invoked in a turn exactly when no MCP operation was executed in it; a
\* message that matches no rule gets the LLM's plain response.
C19_OneOperationOrLLM ==
    (agent = "hint" /\ runs > 0) =>
        /\ call # NoCall => lastCall.run # runs
        /\ pc = "hint_llm" => (call = NoCall /\ lastCall.run # runs)
        /\ llm_input.run = runs => (call = NoCall /\ lastCall.run # runs)
        /\ pc = "END" => (lastCall.run = runs) # (llm_input.run = runs)
        /\ (pc = "END" /\
            ~Says(ListToolsPhrases \cup ListResourcesPhrases \cup ExecutePhrases \cup ReadPhrases)) =>
              /\ llm_input.run = runs
              /\ Last(messages) = AIMessage(<<"llm text">>, <<>>)

C19_Witness ==
    /\ agent = "hint"
    /\ pc = "END"
    /\ runs = 2
    /\ Says(ListToolsPhrases)
    /\ Says(ListResourcesPhrases)
    /\ lastCall.run = 2
    /\ llm_input.run = 1

\* the message names the tool get_user_info and holds the username pattern
NamesToolAndUser ==
    /\ Contains(LowerText(TurnText), "get_user_info")
    /\ ContainsAny(LowerText(TurnText), UsernameTokens)

C21_LLMFailureIsFatal ==
    llm_input.outcome = "raised" =>
        /\ pc = "raised"
        /\ error = "llm failure"
        /\ llm_input.run = runs
        /\ messages = llm_input.input \/ messages = Tail(llm_input.input)
        /\ call = NoCall
        /\ step = "idle"

C21_Witness ==
    /\ agent = "challenge"
    /\ llm_input.outcome = "raised"
    /\ pc = "raised"
    /\ cycles = 2
    /\ Last(messages).type = "tool"

\* the normalizations done so far, and the entries of the k-th
Normalized == 1..Len(returned)
EntriesOf(k) == returned[k].data.items

\* C22: for a tool-call result and for a resource read, normalization drops
\* no content item: the output list has exactly one entry per item, in the
\* order of the items; an item with text gives a record of type "text" with
\* that text, an item without text gives the item's string representation.
C22_NoContentItemDropped ==
    (method.op \in ContentOps /\ result.shape = "result") =>
        \A k \in Normalized :
            /\ returned[k].ok
            /\ returned[k].data.t = "list"
            /\ Len(EntriesOf(k)) = Len(result.items)
            /\ \A i \in 1..Len(result.items) :
                  IF result.items[i].text # Absent
                  THEN /\ EntriesOf(k)[i].t = "dict"
                       /\ EntriesOf(k)[i].items[1] = JPair("type", JStr("text"))
                       /\ EntriesOf(k)[i].items[2] = JPair("text", JStr(result.items[i].text))
                  ELSE EntriesOf(k)[i] = JStr(result.items[i].repr)

C22_Witness ==
    /\ method.op = "execute_tool"
    /\ returned # <<>>
    /\ Len(result.items) = 2
    /\ result.items[1].text = Absent
    /\ result.items[2].text = "hello"
    /\ Len(EntriesOf(1)) = 2

\* a record with a name, as a server's tool, prompt or resource record has
Named(x) == x.kind = "object" /\ x.name # Absent

\* the descriptor at position i of the k-th normalization carries x's name
Describes(k, i, x) ==
    /\ i <= Len(EntriesOf(k))
    /\ EntriesOf(k)[i].t = "dict"
    /\ \E p \in 1..Len(EntriesOf(k)[i].items) :
          EntriesOf(k)[i].items[p] = JPair("name", JStr(x.name))

\* C23: a ListTools operation (MCPClient.list_tools or the hint agent's
\* list_mcp_tools) against a server whose response lists tool A then tool B
\* returns exactly two descriptors, the first for A and the second for B.
C23_ListToolsRoundTrip ==
    (/\ method.op \in {"list_tools", "list_mcp_tools"}
     /\ result.shape = "result"
     /\ Len(result.items) = 2
     /\ \A i \in 1..2 : Named(result.items[i])) =>
        \A k \in Normalized :
            /\ returned[k].ok
            /\ Len(EntriesOf(k)) = 2
            /\ \A i \in 1..2 : Describes(k, i, result.items[i])

\* C24: for list_resources and list_prompts every record of the server's
\* response gives exactly one descriptor of the output, in the server's
\* order: the output has as many entries as the response has records,
\* whatever fields the records carry, and the entry at the position of a
\* record with a name carries that name.
C24_OneDescriptorPerRecord ==
    (/\ method.op \in {"list_resources", "list_prompts", "list_mcp_resources"}
     /\ result.shape \in {"result", "list"}) =>
        \A k \in Normalized :
            /\ Len(EntriesOf(k)) = Len(result.items)
            /\ \A i \in 1..Len(result.items) :
                  Named(result.items[i]) => Describes(k, i, result.items[i])

\* every field the record d holds is one its source record src carries (the
\* nested argument records are looked at by ArgumentsPresent)
FieldsPresent(d, src) ==
    \A p \in 1..Len(d.items) :
        \/ d.items[p].s = "arguments"
        \/ src[d.items[p].s] \notin {Absent, None}

ArgumentsPresent(d, src) ==
    \A p \in 1..Len(d.items) :
        d.items[p].s = "arguments" =>
            LET args == d.items[p].items[1].items
            IN  /\ Len(args) = Len(src.arguments)
                /\ \A a \in 1..Len(args) : FieldsPresent(args[a], src.arguments[a])

\* the records of the response all carry what their operation keys them by
Keyed ==
    \A i \in 1..Len(result.items) :
        /\ Named(result.items[i])
        /\ method.op \in {"list_resources", "list_mcp_resources"} =>
              result.items[i].uri # Absent

\* C25: in every descriptor record a list operation produces (for tools,
\* resources and prompts, and the argument records inside a prompt's
\* descriptor) a field is there only when the source record carries it: a
\* field the source lacks, or holds as None, is left out and never written
\* as null or false.
C25_OnlyPresentFields ==
    (/\ method.op \in ListOps
     /\ result.shape \in {"result", "list"}
     /\ Keyed) =>
        \A k \in Normalized :
            returned[k].ok =>
                \A i \in 1..Len(EntriesOf(k)) :
                    /\ FieldsPresent(EntriesOf(k)[i], result.items[i])
                    /\ ArgumentsPresent(EntriesOf(k)[i], result.items[i])

\* the response has a part the operation cannot read: no content list, or a
\* prompt argument without a name
Malformed ==
    \/ method.op \in ContentOps /\ result.shape # "result"
    \/ /\ method.op = "list_prompts"
       /\ \E i \in 1..Len(result.items) :
             \E a \in 1..Len(result.items[i].arguments) :
                 result.items[i].arguments[a].name = Absent

\* C26: normalization does not fail on a malformed or partial response: the
\* output is still the normalized structure, and it holds the well-formed
\* parts of the response (here: a descriptor for every prompt with a name),
\* only the unreadable field being replaced by a description.
C26_MalformedPartSubstituted ==
    Malformed =>
        \A k \in Normalized :
            /\ returned[k].ok
            /\ method.op = "list_prompts" =>
                  \A i \in 1..Len(result.items) :
                      Named(result.items[i]) =>
                          \E j \in 1..Len(EntriesOf(k)) : Describes(k, j, result.items[i])

CountOf(type) == Cardinality({i \in 1..Len(messages) : messages[i].type = type})

\* C29: the history of a thread is append-only across the runs of the
\* orchestrator and of a challenge agent: no step removes or changes a
\* message the thread holds, and when n runs have completed the thread holds
\* their n Human messages and at least n Assistant messages, hence at least
\* 2n messages (at least 4 after two runs).
C29_HistoryAppendOnly ==
    /\ [][StartsWith(messages', messages)]_vars
    /\ [](pc = "END" =>
            /\ CountOf("human") = runs
            /\ CountOf("ai") >= runs
            /\ Len(messages) >= 2 * runs)

C29_Witness ==
    /\ agent = "orchestrator"
    /\ pc = "END"
    /\ runs = 2
    /\ Len(messages) = 5
    /\ messages[2].type = "system"
    /\ messages[4].type = "human"
    /\ messages[5].type = "ai"

\* C30: whenever a run of a challenge agent reaches DONE, whatever the Human
\* message was (an empty one and one naming a nonexistent tool included),
\* the last message of the conversation is an Assistant message declaring no
\* Operations, and the conversation holds at least two messages.
C30_DoneEndsWithAnswer ==
    (agent = "challenge" /\ pc = "END") =>
        /\ Len(messages) >= 2
        /\ Last(messages).type = "ai"
        /\ Last(messages).tool_calls = <<>>

C30_Witness ==
    /\ agent = "challenge"
    /\ pc = "END"
    /\ runs = 2
    /\ messages[1] = HumanMessage(<<"run", "the", "nonexistent_tool">>)
    /\ messages[2].tool_calls # <<>>
    /\ messages[2].tool_calls[1].name = "no_such_tool"
    /\ messages[Len(messages) - 1] = HumanMessage(<<>>)

\* C28: two conversations that run concurrently, on the same agent or on
\* different agents, share no mutable state: under every interleaving of
\* their reasoning and operation steps each thread holds only messages put
\* there by turns of its own conversation, every request goes over a session
\* that was made for an operation of the conversation sending it, and that
\* session is connected to the server of the conversation's own agent.
C28_ConversationsShareNothing ==
    /\ \A c \in DOMAIN threads :
          \A i \in 1..Len(threads[c]) : threads[c][i].of = c
    /\ \A n \in 1..Len(sessions) :
          sessions[n].used \subseteq {sessions[n].opener}
    /\ \A c \in DOMAIN conv :
          (conv[c].step \in {"initialize", "request", "session_exit"}) =>
              /\ conv[c].session \in 1..Len(sessions)
              /\ sessions[conv[c].session].opener = c
              /\ sessions[conv[c].session].url = mcp_url(conv[c].agent)

C28_Witness ==
    /\ conv # <<>>
    /\ conv[1].agent = conv[2].agent
    /\ conv[1].step = "session_exit"
    /\ conv[2].step = "session_exit"
    /\ conv[1].session = 2
    /\ conv[2].session = 1
    /\ sessions[1].used = {2}
    /\ sessions[2].used = {1}
    /\ Len(threads[1]) = 2
    /\ Len(threads[2]) = 2

\* C31: the challenge agent's graph only makes the transitions START to the
\* reasoning step (at the start of a run), reasoning to operations,
\* operations to reasoning, and reasoning to DONE: the operations step is
\* entered only from a reasoning step and left only to a reasoning step,
\* DONE is entered only from a reasoning step, and after DONE nothing
\* happens on the thread but the start of another run. A node that raises
\* or is abandoned ends the run and is followed by no step.
C31_OnlyGraphTransitions ==
    [][agent = "challenge" =>
          /\ pc' # pc =>
                \/ pc \in {"START", "END"} /\ pc' = "agent" /\ runs' = runs + 1
                \/ pc = "agent" /\ pc' \in {"tools", "END"} /\ runs' = runs
                \/ pc = "tools" /\ pc' = "agent" /\ runs' = runs
                \/ pc \in {"agent", "tools"} /\ pc' \in {"raised", "cancelled"}
          /\ pc = "END" => (pc' = "agent" /\ runs' = runs + 1)
          /\ pc \in {"raised", "cancelled"} => FALSE]_vars

C31_Witness ==
    /\ agent = "challenge"
    /\ pc = "END"
    /\ runs = 2
    /\ Len(messages) = 6
    /\ messages[2].tool_calls # <<>>
    /\ messages[3].type = "tool"
    /\ messages[4].tool_calls = <<>>
    /\ messages[5].type = "human"
    /\ messages[6].tool_calls = <<>>

\* C32: on every LLM invocation of the orchestrator, in the first run of a
\* thread and in every later run, the message list passed to the LLM has the
\* system prompt as its first message.
C32_SystemPromptFirst ==
    (agent = "orchestrator" /\ llm_input # NoInput) =>
        /\ llm_input.input # <<>>
        /\ llm_input.input[1] = SystemMessage(<<"SYSTEM_PROMPT">>)

\* the text, read without regard to case, mentions challenge n as
\* "challenge n" or as "challengen"
Mentions(text, n) ==
    \E k \in 1..Len(text), sp \in BOOLEAN : content_lower(text)[k] = Mention(sp, n)

\* the text mentions challenge n and no other challenge number
MentionsOnly(text, n) ==
    /\ Mentions(text, n)
    /\ \A m \in (1..MaxMention) \ {n} : ~Mentions(text, m)

\* C33: for every N in 1..10, when the last message of the orchestrator's
\* conversation mentions "challenge N" or "challengeN" (in any case) and no
\* other challenge number, the orchestrator step sets selected_challenge to
\* "ChallengeN".
C33_MentionSelects ==
    [][(agent = "orchestrator" /\ pc = "orchestrator" /\ pc' = "END") =>
          \A N \in 1..10 :
              MentionsOnly(Last(messages).content, N) =>
                  selected_challenge' = "Challenge" \o ToString(N)]_vars

\* C34: when the last message of the orchestrator's conversation mentions no
\* challenge, the orchestrator step leaves selected_challenge equal to its
\* value before the step; that value is empty when it was never set.
C34_NoMentionKeepsSelection ==
    /\ selected_challenge = ""
    /\ [][(/\ agent = "orchestrator"
           /\ pc = "orchestrator"
           /\ pc' = "END"
           /\ \A n \in 1..MaxMention : ~Mentions(Last(messages).content, n)) =>
              selected_challenge' = selected_challenge]_vars

C34_Witness ==
    /\ agent = "orchestrator"
    /\ pc = "END"
    /\ runs = 2
    /\ Len(messages) = 5
    /\ Mentions(messages[1].content, 3)
    /\ messages[4] = HumanMessage(<<"My name is Alice">>)
    /\ selected_challenge = "Challenge3"

\* C35: on the success path of an operation of the MCP client the teardown
\* happens exactly once and in the order session close, then transport
\* close: when the step that closes the transport and normalizes the
\* response ends the call, each await of the operation has been begun once,
\* in the order of the code, the session close has completed before the
\* transport close began, and the call ends with both closed, whether the
\* normalization succeeds or fails.
C35_TeardownBeforeNormalization ==
    [][(/\ step = "transport_exit"
        /\ lastCall'.outcome = "returned"
        /\ lastCall'.failedAt \in {"none", "normalize"}) =>
           /\ awaited = <<"connect", "session_enter", "initialize", "request",
                          "session_exit", "transport_exit">>
           /\ transport = "open"
           /\ session = "closed"
           /\ lastCall'.session = "closed"
           /\ lastCall'.transport = "closed"]_vars

C35_Witness ==
    /\ agent = "client"
    /\ step = "idle"
    /\ lastCall.client = "MCPClient"
    /\ lastCall.outcome = "returned"
    /\ lastCall.failedAt = "normalize"
    /\ lastCall.session = "closed"
    /\ lastCall.transport = "closed"
    /\ Cardinality(Begun("session_exit")) = 1
    /\ Cardinality(Begun("transport_exit")) = 1

\* the correlation ids of the Operations with a tool's name that the last
\* message declares before position k
KnownBefore(k) ==
    LET known == SelectSeq(SubSeq(Last(messages).tool_calls, 1, k - 1), Known)
    IN  [n \in 1..Len(known) |-> known[n].id]

\* C36: within one turn of the challenge agent's loop the Operations execute
\* one at a time in the order of their declaration: while an operation is
\* in flight it is the one at the loop's position and every Operation
\* declared before it has returned its result; an operation is started
\* either at the entry of the tool step, with nothing in flight, or in the
\* step in which the operation before it returns, and it starts with no
\* session and no transport opened.
C36_OneOperationAtATime ==
    /\ [](agent = "challenge" /\ step # "idle" =>
            /\ pc = "tools"
            /\ toolIdx \in 1..Len(Last(messages).tool_calls)
            /\ call.id = Last(messages).tool_calls[toolIdx].id
            /\ [n \in 1..Len(tool_responses) |-> tool_responses[n].tool_call_id]
                  = KnownBefore(toolIdx))
    /\ [][(agent = "challenge" /\ call' # NoCall /\ call' # call) =>
            /\ step' = "connect"
            /\ session' = "none"
            /\ transport' = "none"
            /\ \/ step = "idle" /\ call = NoCall /\ KnownBefore(toolIdx') = <<>>
               \/ /\ step # "idle"
                  /\ lastCall'.outcome = "returned"
                  /\ lastCall'.id = call.id
                  /\ Last(KnownBefore(toolIdx')) = call.id]_vars

C36_Witness ==
    /\ agent = "challenge"
    /\ pc = "tools"
    /\ step = "session_enter"
    /\ toolIdx = 2
    /\ call.id = 2
    /\ Len(tool_responses) = 1
    /\ tool_responses[1].tool_call_id = 1
    /\ lastCall.id = 1
    /\ lastCall.outcome = "returned"
    /\ lastCall.session = "open"
    /\ session = "none"

\* C37: every turn of the hint agent that returns, returns the incoming
\* conversation, with the system prompt prepended if and only if the
\* incoming conversation has exactly one message, followed by exactly one
\* new Assistant message, which is either the result of the MCP operation
\* or the LLM's response; no incoming message is removed or reordered.
C37_HintTurnAppendsOne ==
    [][(agent = "hint" /\ pc # "END" /\ pc' = "END") =>
          LET prompt == IF Len(messages) = 1
                        THEN <<SystemMessage(<<"SYSTEM_PROMPT">>)>>
                        ELSE <<>>
          IN  /\ Len(messages') = Len(prompt) + Len(messages) + 1
              /\ SubSeq(messages', 1, Len(messages') - 1) = prompt \o messages
              /\ Last(messages').type = "ai"
              /\ \/ /\ pc = "hint_call"
                    /\ lastCall'.outcome = "returned"
                    /\ Last(messages') = HintAnswer(call, lastCall'.value)
                 \/ /\ pc = "hint_llm"
                    /\ llm_input'.outcome = "responded"
                    /\ llm_input'.input = prompt \o messages
                    /\ Last(messages') = AIMessage(<<"llm text">>, <<>>)]_vars

C37_Witness ==
    /\ agent = "hint"
    /\ pc = "END"
    /\ runs = 2
    /\ Len(messages) = 4
    /\ messages[1] = HumanMessage(<<"hello">>)
    /\ messages[2].type = "ai"
    /\ messages[3] = HumanMessage(<<"list tools">>)
    /\ messages[4] = HintAnswer(lastCall, lastCall.value)
    /\ lastCall.run = 2
    /\ llm_input.run = 1
    /\ llm_input.input[1].type = "system"

\* process p has an entry in the registry
Recorded(p) == \E n \in ServerChallenges : processes[n] = p

\* C38: whenever start_server ends with an error (the server script crashed,
\* no response within the 10 retries, or any other failure while probing
\* the endpoint), the process it spawned is not left running and has no
\* entry in the processes registry; a process has an entry only after the
\* endpoint of its challenge was observed responding.
C38_FailedStartLeavesNothing ==
    \A p \in 1..Len(spawned) :
        /\ spawned[p].start = "raised" => (~Alive(p) /\ ~Recorded(p))
        /\ Recorded(p) => spawned[p].observed

====
